---- MODULE Spec2Model ----
(***************************************************************************)
(* A model of the RV64IMC emulator: the machine state (VM), the length,    *)
(* RVI and RVC decoders, the operation handlers and the fetch/execute loop *)
(* VM.Run.                                                                 *)
(*                                                                         *)
(* A uint64 is modelled as the set of the positions of its 1 bits (a       *)
(* subset of 0..63), so that the full 64-bit width is kept: the mask, the  *)
(* shift and the wrap-around of every Go expression are computed on all 64 *)
(* bits.  A byte of memory and a register index are plain naturals.        *)
(***************************************************************************)
EXTENDS Integers, Sequences, FiniteSets, TLC

VARIABLES
  vm,       \* the VM struct: Reg, CSR, PC, Steps, Mem, LastInstr, LastPC
  status,   \* "idle" before the first call of Run; "running" inside a call;
            \* "nil", "exit", "error": what the last call returned;
            \* "panic": the Go runtime stopped the process
  n,        \* Run's argument
  i,        \* Run's loop counter
  size,     \* Run's local: the size Decode returned in the last iteration
  out,      \* Run's local: the flags the last handler returned
  prev,     \* history: the VM as it was before the last iteration
  vm0,      \* history: the VM as it was when Run was last called
  calls,    \* history: how many times Run has been called
  streams,  \* what ecall has written so far: <<fd, bytes>> pairs
  tt,       \* the test case, or the arguments, of a function called directly
  got,      \* what that call returned
  spike,    \* the Spike struct: Reg, PC, Steps, and the error of its last Run
  fds,      \* the PTY file descriptors the process holds open
  diff      \* diffWithSpike: its position, its loop counter and what it returned

vars == <<vm, status, n, i, size, out, prev, vm0, calls, streams,
          tt, got, spike, fds, diff>>

\* the variables of the direct calls and of the diff harness
aux == <<tt, got, spike, fds, diff>>

----------------------------------------------------------------------------
(* uint64 arithmetic on sets of bit positions *)

Bits == 0 .. 63

\* the uint64 with the low k bits set: (1 << k) - 1
Mask(k) == 0 .. (k - 1)

\* the uint64 of a natural below 2^31
U(x) == {b \in 0 .. 30 : (x \div (2 ^ b)) % 2 = 1}

\* whether a uint64 is below 2^31, so that Val can turn it into a natural
Fits(w) == w \subseteq 0 .. 30

\* the sum of 2^(b - base) over the bits b of w in lo..hi
RECURSIVE SumBits(_, _, _, _)
SumBits(w, base, lo, hi) ==
  IF lo = hi THEN (IF lo \in w THEN 2 ^ (lo - base) ELSE 0)
  ELSE LET mid == (lo + hi) \div 2
       IN  SumBits(w, base, lo, mid) + SumBits(w, base, mid + 1, hi)

\* the natural held by the len bits of w from bit lo up: (w >> lo) & (1<<len - 1)
Field(w, lo, len) == SumBits(w, lo, lo, lo + len - 1)

\* the natural a uint64 below 2^31 stands for
Val(w) == Field(w, 0, 31)

And(a, b) == a \cap b
Or(a, b) == a \cup b
a & b == a \cap b
a | b == a \cup b
Xor(a, b) == (a \ b) \cup (b \ a)
AndNot(a, b) == a \ b                     \* Go's a &^ b
Not(a) == Bits \ a

\* a << k and a >> k on uint64, for a natural shift count k
Shl(a, k) == {b + k : b \in a} \cap Bits
Shr(a, k) == {b - k : b \in {c \in a : c >= k}}

\* uint64(int64(a) >> k), 0 <= k <= 63
Sar(a, k) == Shr(a, k) \cup (IF 63 \in a THEN (64 - k) .. 63 ELSE {})

\* a + b + c modulo 2^64 (c is 0 or 1), added in four 16-bit limbs
AddC(a, b, c) ==
  LET s0 == Field(a, 0, 16) + Field(b, 0, 16) + c
      s1 == Field(a, 16, 16) + Field(b, 16, 16) + s0 \div 65536
      s2 == Field(a, 32, 16) + Field(b, 32, 16) + s1 \div 65536
      s3 == Field(a, 48, 16) + Field(b, 48, 16) + s2 \div 65536
      l  == <<s0, s1, s2, s3>>
  IN  {k \in Bits : (l[k \div 16 + 1] \div (2 ^ (k % 16))) % 2 = 1}

\* a + b, a - b and -a modulo 2^64
Add(a, b) == AddC(a, b, 0)
Sub(a, b) == AddC(a, Not(b), 1)
Neg(a) == AddC({}, Not(a), 1)

MaxBit(w) == CHOOSE b \in w : \A c \in w : c <= b

\* a < b on uint64, and on int64
Ult(a, b) == LET d == Xor(a, b) IN d # {} /\ MaxBit(d) \in b
Slt(a, b) == Ult(Xor(a, {63}), Xor(b, {63}))

\* the sum of the a << k over the bits k of b in lo..hi, modulo 2^64
RECURSIVE MulRange(_, _, _, _)
MulRange(a, b, lo, hi) ==
  IF lo = hi THEN (IF lo \in b THEN Shl(a, lo) ELSE {})
  ELSE LET mid == (lo + hi) \div 2
       IN  Add(MulRange(a, b, lo, mid), MulRange(a, b, mid + 1, hi))

\* a * b modulo 2^64
Mul(a, b) == MulRange(a, b, 0, 63)

\* one step of the long division of a by b: bit k of a is brought down
\* into the remainder qr[2], and bit k of the quotient qr[1] is decided
DivStep(a, b, k, qr) ==
  LET r1 == Or(Shl(qr[2], 1), IF k \in a THEN {0} ELSE {})
  IN  IF Ult(r1, b) THEN <<qr[1], r1>> ELSE <<qr[1] \cup {k}, Sub(r1, b)>>

\* <<quotient, remainder>> of the unsigned division a / b, b # 0: the long
\* division from bit k down, four bits at a time
RECURSIVE DivModFrom(_, _, _, _)
DivModFrom(a, b, k, qr) ==
  IF k < 0 THEN qr
  ELSE LET s == DivStep(a, b, k - 3, DivStep(a, b, k - 2,
                  DivStep(a, b, k - 1, DivStep(a, b, k, qr))))
       IN  IF s[1] \subseteq Bits THEN DivModFrom(a, b, k - 4, s) ELSE s

Udiv(a, b) == DivModFrom(a, b, 63, <<{}, {}>>)[1]
Urem(a, b) == DivModFrom(a, b, 63, <<{}, {}>>)[2]

Abs(a) == IF 63 \in a THEN Neg(a) ELSE a

\* Go's int64(a) / int64(b) and int64(a) % int64(b), b # 0: the quotient is
\* truncated toward zero, the remainder has the sign of the dividend, and
\* the most negative value divided by -1 wraps
Sdiv(a, b) ==
  LET q == Udiv(Abs(a), Abs(b))
  IN  IF (63 \in a) # (63 \in b) THEN Neg(q) ELSE q
Srem(a, b) ==
  LET r == Urem(Abs(a), Abs(b))
  IN  IF 63 \in a THEN Neg(r) ELSE r

\* uint64(uint32(a)) and uint64(int32(a))
U32(a) == a \cap (0 .. 31)
I32(a) == IF 31 \in a THEN U32(a) \cup (32 .. 63) ELSE U32(a)

----------------------------------------------------------------------------
(* sign.go *)

\* the table init() fills: entry k holds 1 << k and ^0 << k
signBits == [k \in 0 .. 31 |-> [signBit |-> {k}, ones |-> k .. 63]]

\* whether signExtend(v, bit) indexes signBits out of range
signExtendPanics(bit) == bit \notin DOMAIN signBits

signExtend(v, bit) ==
  LET b == signBits[bit]
  IN  IF (v & b.signBit) # {} THEN v | b.ones ELSE v

----------------------------------------------------------------------------
(* The Instruction and flags structs, the VM struct and VM.store *)

\* an Instruction literal; rs1, rs2 and rd are register numbers, imm and in
\* are uint64
Instr(fn, rd, rs1, rs2, imm) ==
  [fn |-> fn, rs1 |-> rs1, rs2 |-> rs2, rd |-> rd, imm |-> imm, in |-> {}]

\* the nil *Instruction, and an Instruction whose fn is nil
NoInstr == Instr("nil", 0, 0, 0, {})

NoFlags == [updatedPC |-> FALSE, updatedRDINSTRET |-> FALSE]

SP == 2
RA == 1
Zero == 0

RDCYCLE == 1
RDTIME == 2
RDINSTRET == 3

\* RegNames[r + 1] is the name of register r
RegNames ==
  <<"zero", "ra", "sp", "gp", "tp", "t0", "t1", "t2", "s0", "s1", "a0", "a1",
    "a2", "a3", "a4", "a5", "a6", "a7", "s2", "s3", "s4", "s5", "s6", "s7",
    "s8", "s9", "s10", "s11", "t3", "t4", "t5", "t6">>

\* the map init() fills from RegNames: name -> register number
regNums ==
  [nm \in {RegNames[k] : k \in DOMAIN RegNames} |->
     (CHOOSE k \in DOMAIN RegNames : RegNames[k] = nm) - 1]

\* len(vm.Reg) and len(vm.CSR)
RegLen == 32
CSRLen == 2048

\* len(vm.Mem); memory addresses are 0 .. len - 1
MemLen(m) == Cardinality(DOMAIN m)

\* NewVM(&Prog{Start: start, MemSize: memSize}) with nil Argv and Env
NewVM(start, memSize) ==
  [Reg |-> [r \in 0 .. RegLen - 1 |-> {}],
   CSR |-> [c \in 0 .. CSRLen - 1 |-> {}],
   PC |-> start,
   Steps |-> 0,
   Mem |-> [a \in 0 .. memSize - 1 |-> 0],
   LastInstr |-> NoInstr,
   LastPC |-> {}]

\* store without the test of rd: every register is written
storeAll(m, rd, val) == [m EXCEPT !.Reg[rd] = val]

\* vm.store(rd, val): the VM after the call
store(m, rd, val) ==
  IF rd = 0 THEN m ELSE [m EXCEPT !.Reg[rd] = val]

\* a string is the sequence of its bytes; a []string is nil or holds its
\* elements in order
NilSlice == [isNil |-> TRUE, elems |-> <<>>]
Slice(ss) == [isNil |-> FALSE, elems |-> ss]

\* vm.pushUint64 with the most significant byte at the lowest address
pushUint64BigEndian(m, v) ==
  LET sp == Sub(m.Reg[SP], U(8))
  IN  [m EXCEPT !.Reg[SP] = sp,
                !.Mem = [a \in DOMAIN m.Mem |->
                  IF a >= Val(sp) /\ a < Val(sp) + 8
                  THEN Field(v, 8 * (7 - (a - Val(sp))), 8) ELSE m.Mem[a]]]

\* vm.pushUint64(v): SP goes down by 8 and the 8 bytes of v are stored at
\* SP, the least significant first
pushUint64(m, v) ==
  LET sp == Sub(m.Reg[SP], U(8))
  IN  [m EXCEPT !.Reg[SP] = sp,
                !.Mem = [a \in DOMAIN m.Mem |->
                  IF a >= Val(sp) /\ a < Val(sp) + 8
                  THEN Field(v, 8 * (a - Val(sp)), 8) ELSE m.Mem[a]]]

\* vm.pushCString(s): SP goes down by len(s) + 1, and the bytes of s and a 0
\* are stored at SP
pushCString(m, s) ==
  LET sp == Sub(m.Reg[SP], U(Len(s) + 1))
  IN  [m EXCEPT !.Reg[SP] = sp,
                !.Mem = [a \in DOMAIN m.Mem |->
                  IF a >= Val(sp) /\ a < Val(sp) + Len(s) THEN s[a - Val(sp) + 1]
                  ELSE IF a = Val(sp) + Len(s) THEN 0 ELSE m.Mem[a]]]

\* for i := len(ss) - 1; i >= 0; i-- { vm.pushCString(ss[i]); addrs =
\* append(addrs, vm.Reg[SP]) }, from index k down: the VM and addrs after it
RECURSIVE pushCStrings(_, _, _, _)
pushCStrings(m, addrs, ss, k) ==
  IF k < 1 THEN [vm |-> m, addrs |-> addrs]
  ELSE LET m1 == pushCString(m, ss[k])
       IN  pushCStrings(m1, Append(addrs, m1.Reg[SP]), ss, k - 1)

\* for _, a := range addrs { vm.pushUint64(a) }, from index k up
RECURSIVE pushAddrs(_, _, _)
pushAddrs(m, addrs, k) ==
  IF k > Len(addrs) THEN m ELSE pushAddrs(pushUint64(m, addrs[k]), addrs, k + 1)

\* the sum of len(s) + 1 over the strings of ss
RECURSIVE CStringsLen(_)
CStringsLen(ss) ==
  IF ss = <<>> THEN 0 ELSE Len(Head(ss)) + 1 + CStringsLen(Tail(ss))

\* memSize of NewVM(p) when Argv or Env is not nil: p.MemSize and the room
\* for the strings, each with its NUL, and for the table of argc, the
\* addresses and the two terminators
StackMemSize(p) ==
  p.MemSize + CStringsLen(p.Env.elems) + CStringsLen(p.Argv.elems)
    + (1 + Len(p.Env.elems) + 1 + Len(p.Argv.elems) + 1) * 8

\* NewVM(p) for a Prog p: with Argv and Env both nil the VM has p.MemSize
\* bytes and no stack; otherwise memory grows by the strings and the table,
\* the strings of Env and then of Argv are pushed from the last to the
\* first, SP is aligned down to 8 bytes, and the table is pushed
NewVMProg(p) ==
  IF p.Argv.isNil /\ p.Env.isNil THEN NewVM(p.Start, p.MemSize)
  ELSE
    LET memSize == StackMemSize(p)
        m0 == [NewVM(p.Start, memSize) EXCEPT !.Reg[SP] = U(memSize)]
        e == pushCStrings(m0, <<{}>>, p.Env.elems, Len(p.Env.elems))
        a == pushCStrings(e.vm, Append(e.addrs, {}), p.Argv.elems, Len(p.Argv.elems))
        m1 == [a.vm EXCEPT !.Reg[SP] = AndNot(a.vm.Reg[SP], U(\h7))]
    IN  pushUint64(pushAddrs(m1, a.addrs, 1), U(Len(p.Argv.elems)))

\* the Prog of main for the command line -prog p with the default flags:
\* strings.Split("", ",") is [""], so Argv is ["p", ""] and Env is [""]
MainProg(memSize) ==
  [Argv |-> Slice(<< <<112>>, <<>> >>), Env |-> Slice(<< <<>> >>),
   Start |-> U(0), MemSize |-> memSize]

----------------------------------------------------------------------------
(* rvc.go: the decoder of compressed instructions *)

\* rvcRegOffset is added to 3-bit RVC register numbers
rvcRegOffset == 8

\* the decodeXX helpers: in is a uint16; the immediates are uint64 and the
\* registers are register numbers
decodeCR(in) == [r1 |-> Val(Shr(in, 7) & U(\h1f)), r2 |-> Val(Shr(in, 2) & U(\h1f))]

decodeCI(in) ==
  [imm |-> (Shr(in, 7) & U(\h20)) | (Shr(in, 2) & U(\h1f)),
   r |-> Val(Shr(in, 7) & U(\h1f))]

decodeCSS(in) == [imm |-> Shr(in, 7) & U(\h3f), r |-> Val(Shr(in, 2) & U(\h1f))]

decodeCIW(in) ==
  [imm |-> Shr(in, 5) & U(\hff), r |-> Val(Shr(in, 2) & U(\h7)) + rvcRegOffset]

decodeCL(in) ==
  [imm |-> (Shr(in, 8) & U(\h1c)) | (Shr(in, 5) & U(\h3)),
   r1 |-> Val(Shr(in, 7) & U(\h7)) + rvcRegOffset,
   r2 |-> Val(Shr(in, 2) & U(\h7)) + rvcRegOffset]

decodeCS(in) ==
  [imm |-> (Shr(in, 8) & U(\h1c)) | (Shr(in, 5) & U(\h3)),
   r1 |-> Val(Shr(in, 7) & U(\h7)) + rvcRegOffset,
   r2 |-> Val(Shr(in, 2) & U(\h7)) + rvcRegOffset]

decodeCB(in) ==
  [imm |-> (Shr(in, 5) & U(\he0)) | (Shr(in, 2) & U(\h1f)),
   r |-> Val(Shr(in, 7) & U(\h7)) + rvcRegOffset]

decodeShiftCB(in) ==
  [offset |-> Shr(in & U(\h1000), 7) | (Shr(in, 2) & U(\h1f)),
   r |-> Val(Shr(in, 7) & U(\h7)) + rvcRegOffset]

decodeCJ(in) == Shr(in, 2) & U(\h7ff)

\* what a decoder returns: the instruction (NoInstr for nil) and the error,
\* "nil", "error", or "panic" when the call does not return
Decoded(instr) == [instr |-> instr, err |-> "nil"]
DecodeErr == [instr |-> NoInstr, err |-> "error"]
DecodePanic == [instr |-> NoInstr, err |-> "panic"]

\* the inner switch of case 0x11, on (in >> 8 & 0x1c) | (in >> 5 & 0x3)
rvcDecodeOpOp(in) ==
  LET d == decodeCS(in)
      sel == Val((Shr(in, 8) & U(\h1c)) | (Shr(in, 5) & U(\h3)))
  IN  CASE sel = \hc  -> Decoded(Instr("sub", d.r1, d.r1, d.r2, {}))
        [] sel = \hd  -> Decoded(Instr("xor", d.r1, d.r1, d.r2, {}))
        [] sel = \he  -> Decoded(Instr("or", d.r1, d.r1, d.r2, {}))
        [] sel = \hf  -> Decoded(Instr("and", d.r1, d.r1, d.r2, {}))
        [] sel = \h1c -> Decoded(Instr("subw", d.r1, d.r1, d.r2, {}))
        [] sel = \h1d -> Decoded(Instr("addw", d.r1, d.r1, d.r2, {}))
        [] OTHER -> DecodePanic      \* 0x1e, 0x1f: panic("unreachable")

\* case 0x12: C.JR, C.MV, C.EBREAK, C.JALR, C.ADD
rvcDecodeCR(in) ==
  LET d == decodeCR(in)
      b == in & U(\h1000)
  IN  CASE b = {} /\ d.r2 = 0 -> Decoded(Instr("rvcJALR", Zero, d.r1, 0, {}))
        [] b = {} /\ d.r2 # 0 -> Decoded(Instr("add", d.r1, Zero, d.r2, {}))
        [] b = U(\h1000) /\ d.r1 = 0 /\ d.r2 = 0 -> Decoded(Instr("ebreak", 0, 0, 0, {}))
        [] b = U(\h1000) /\ d.r1 # 0 /\ d.r2 = 0 -> Decoded(Instr("rvcJALR", RA, d.r1, 0, {}))
        [] OTHER -> Decoded(Instr("add", d.r1, d.r1, d.r2, {}))

rvcDecode(in) ==
  IF in = {} THEN DecodeErr
  ELSE
  LET sel == Val((Shr(in, 11) & U(\h1c)) | (in & U(\h3)))
      ci  == decodeCI(in)
      cl  == decodeCL(in)
      cs  == decodeCS(in)
      cb  == decodeCB(in)
      css == decodeCSS(in)
      ciw == decodeCIW(in)
      scb == decodeShiftCB(in)
      cj  == decodeCJ(in)
      \* C.BEQZ and C.BNEZ: 84376215 -> 876543210
      bimm == signExtend(Shl(cb.imm & U(\h80), 1) | Shr(cb.imm & U(\h60), 2)
                | Shl(cb.imm & U(\h18), 3) | (cb.imm & U(\h6))
                | Shl(cb.imm & U(\h1), 5), 8)
  IN  CASE sel = \h00 ->   \* C.ADDI4SPN
             Decoded(Instr("addi", ciw.r, SP, 0,
               Shr(ciw.imm & U(\hc0), 2) | Shl(ciw.imm & U(\h3c), 4)
                 | Shl(ciw.imm & U(\h2), 1) | Shl(ciw.imm & U(\h1), 3)))
        [] sel = \h04 -> DecodePanic      \* C.FLD
        [] sel = \h08 ->   \* C.LW
             Decoded(Instr("lw", cl.r2, cl.r1, 0,
               Shl((Shl(cl.imm, 5) | cl.imm) & U(\h3e), 1)))
        [] sel = \h0C ->   \* C.LD
             Decoded(Instr("ld", cl.r2, cl.r1, 0,
               (Shl(cl.imm, 6) | Shl(cl.imm, 1)) & U(\hf8)))
        [] sel = \h10 -> DecodePanic      \* reserved
        [] sel = \h14 -> DecodePanic      \* C.FSD
        [] sel = \h18 ->   \* C.SW
             Decoded(Instr("sw", 0, cs.r1, cs.r2,
               Shl(Shl(cs.imm, 5) | cs.imm, 1) & U(\h7c)))
        [] sel = \h1C ->   \* C.SD
             Decoded(Instr("sd", 0, cs.r1, cs.r2,
               Shl(Shl(cs.imm, 5) | cs.imm, 1) & U(\hf8)))
        [] sel = \h01 ->   \* C.NOP, C.ADDI
             Decoded(Instr("addi", ci.r, ci.r, 0, signExtend(ci.imm, 5)))
        [] sel = \h05 ->   \* C.ADDIW
             Decoded(Instr("addiw", ci.r, ci.r, 0, signExtend(ci.imm, 5)))
        [] sel = \h09 ->   \* C.LI
             Decoded(Instr("addi", ci.r, Zero, 0, signExtend(ci.imm, 5)))
        [] sel = \h0D ->   \* C.LUI, C.ADDI16SP
             IF ci.r # 2
             THEN Decoded(Instr("lui", ci.r, 0, 0, signExtend(Shl(ci.imm, 12), 17)))
             ELSE Decoded(Instr("addi", SP, SP, 0,
                    signExtend(Shl(ci.imm & U(\h20), 4) | (ci.imm & U(\h10))
                      | Shl(ci.imm & U(\h8), 3) | Shl(ci.imm & U(\h6), 6)
                      | Shl(ci.imm & U(\h1), 5), 9)))
        [] sel = \h11 ->
             LET sub == Val(Shr(in, 10) & U(\h3))
             IN  CASE sub = 0 -> Decoded(Instr("srli", scb.r, scb.r, 0, scb.offset))
                   [] sub = 1 -> Decoded(Instr("srai", scb.r, scb.r, 0, scb.offset))
                   [] sub = 2 -> Decoded(Instr("andi", scb.r, scb.r, 0, scb.offset))
                   [] OTHER -> rvcDecodeOpOp(in)
        [] sel = \h15 ->   \* C.J: B498A673215 -> BA9876543210
             Decoded(Instr("rvcJAL", Zero, 0, 0,
               signExtend(Shr(cj & U(\h200), 5) | Shl(cj & U(\h40), 4)
                 | Shl(cj & U(\h5a0), 1) | Shl(cj & U(\h10), 3)
                 | (cj & U(\he)) | Shl(cj & U(\h1), 5), 11)))
        [] sel = \h19 -> Decoded(Instr("beq", 0, cb.r, Zero, bimm))    \* C.BEQZ
        [] sel = \h1D -> Decoded(Instr("bne", 0, cb.r, Zero, bimm))    \* C.BNEZ
        [] sel = \h02 -> Decoded(Instr("slli", ci.r, ci.r, 0, ci.imm)) \* C.SLLI
        [] sel = \h06 -> DecodePanic      \* C.FLDSP
        [] sel = \h0A ->   \* C.LWSP
             Decoded(Instr("lw", ci.r, SP, 0, (Shl(ci.imm, 6) | ci.imm) & U(\hfc)))
        [] sel = \h0E ->   \* C.LDSP
             Decoded(Instr("ld", ci.r, SP, 0, (Shl(ci.imm, 6) | ci.imm) & U(\h1f8)))
        [] sel = \h12 -> rvcDecodeCR(in)
        [] sel = \h16 -> DecodePanic      \* C.FSDSP
        [] sel = \h1A ->   \* C.SWSP
             Decoded(Instr("sw", 0, SP, css.r, (Shl(css.imm, 6) | css.imm) & U(\hfc)))
        [] sel = \h1E ->   \* C.SDSP
             Decoded(Instr("sd", 0, SP, css.r, (Shl(css.imm, 6) | css.imm) & U(\h1f8)))
        [] OTHER -> DecodePanic           \* panic("unrecognized rvc instruction")

----------------------------------------------------------------------------
(* The decoder of 32-bit instructions and the length decoder *)

\* the base opcodes by format
boRType == {\h0b, \h0c, \h0e, \h14}               \* boAMO, boOp, boOp32, boOpFP
boIType == {\h00, \h01, \h03, \h04, \h06, \h19, \h1c}
boSType == {\h08, \h09}                           \* boStore, boStoreFP
boBType == {\h18}                                 \* boBranch
boUType == {\h05, \h0d}                           \* boAUIPC, boLUI
boJType == {\h1b}                                 \* boJAL

\* the entries of the table rvi64Instructions: index :> handler
rvi64Instructions ==
  (\h0D :> "lui") @@ (\h05 :> "auipc") @@ (\h1B :> "jal") @@ (\h19 :> "jalr")
  @@ (\h18 :> "beq") @@ (\h38 :> "bne") @@ (\h98 :> "blt") @@ (\hB8 :> "bge")
  @@ (\hD8 :> "bltu") @@ (\hF8 :> "bgeu")
  @@ (\h00 :> "lb") @@ (\h20 :> "lh") @@ (\h40 :> "lw") @@ (\h80 :> "lbu")
  @@ (\hA0 :> "lhu") @@ (\h08 :> "sb") @@ (\h28 :> "sh") @@ (\h48 :> "sw")
  @@ (\h04 :> "addi") @@ (\h44 :> "slti") @@ (\h64 :> "sltiu")
  @@ (\h84 :> "xori") @@ (\hC4 :> "ori") @@ (\hE4 :> "andi")
  @@ (\h000C :> "add") @@ (\h200C :> "sub") @@ (\h002C :> "sll")
  @@ (\h004C :> "slt") @@ (\h006C :> "sltu") @@ (\h008C :> "xor")
  @@ (\h00AC :> "srl") @@ (\h20AC :> "sra") @@ (\h0CC :> "or")
  @@ (\h0EC :> "and") @@ (\h03 :> "fence") @@ (\h23 :> "fence_i")
  @@ (\h1C :> "ecallOrBreak") @@ (\h3C :> "csrrw") @@ (\h5C :> "csrrs")
  @@ (\h7C :> "csrrc") @@ (\hBC :> "csrrwi") @@ (\hDC :> "csrrsi")
  @@ (\hFC :> "csrrci")
  @@ (\hC0 :> "lwu") @@ (\h60 :> "ld") @@ (\h68 :> "sd") @@ (\h24 :> "slli")
  @@ (\hA4 :> "shiftRight") @@ (\h06 :> "addiw") @@ (\h0026 :> "slliw")
  @@ (\h00A6 :> "srliw") @@ (\h20A6 :> "sraiw") @@ (\h000E :> "addw")
  @@ (\h200E :> "subw") @@ (\h002E :> "sllw") @@ (\h00AE :> "srlw")
  @@ (\h20AE :> "sraw")
  @@ (\h10C :> "mul") @@ (\h12C :> "mulh") @@ (\h14C :> "mulhsu")
  @@ (\h16C :> "mulhu") @@ (\h18C :> "div") @@ (\h1AC :> "divu")
  @@ (\h1CC :> "rem") @@ (\h1EC :> "remu") @@ (\h10E :> "mulw")
  @@ (\h18E :> "divw") @@ (\h1AE :> "divuw") @@ (\h1CE :> "remw")
  @@ (\h1EE :> "remuw")

\* len(rvi64Instructions): the array literal ends at its largest index
rvi64Len == \h20AE + 1

\* rvi64Instructions[key]: "nil" for an index the literal leaves out, "panic"
\* for an index out of range
rvi64Lookup(key) ==
  IF key >= rvi64Len THEN "panic"
  ELSE IF key \in DOMAIN rvi64Instructions THEN rvi64Instructions[key]
  ELSE "nil"

\* a length decoder that takes every instruction for a 32-bit one
decodeSizeAlwaysFour(b) == [size |-> 4, ok |-> TRUE]

\* decodeSize(b): b is a sequence of bytes, b[1] the first
decodeSize(b) ==
  LET b0 == U(b[1])
  IN  CASE (b0 & U(\h3)) # U(\h3) -> [size |-> 2, ok |-> TRUE]
        [] (b0 & U(\h3)) = U(\h3) /\ (b0 & U(\h1f)) # U(\h1f) -> [size |-> 4, ok |-> TRUE]
        [] (b0 & U(\h3f)) = U(\h1f) -> [size |-> 3, ok |-> TRUE]
        [] (b0 & U(\h7f)) = U(\h3f) -> [size |-> 4, ok |-> TRUE]
        [] OTHER ->      \* b[0] & 0x7f == 0x7f
             LET nn == Val(Shr(U(b[2]), 4) & U(\h7))
             IN  IF nn = 7 THEN [size |-> 0, ok |-> FALSE]
                 ELSE [size |-> 5 + 2 * nn, ok |-> TRUE]

\* what Decode returns: the instruction (NoInstr for nil), the size and the
\* error, "nil", "error", or "panic" when the call does not return
DecodeRet(instr, sz, err) == [instr |-> instr, size |-> sz, err |-> err]

\* the 32-bit part of Decode: b holds at least 4 bytes
DecodeRVI(pc, b) ==
  LET in  == Shl(U(b[4]), 24) | Shl(U(b[3]), 16) | Shl(U(b[2]), 8) | U(b[1])
      o   == [NoInstr EXCEPT !.in = in,
                             !.rs1 = Val(Shr(in, 15) & U(\h1f)),
                             !.rs2 = Val(Shr(in, 20) & U(\h1f)),
                             !.rd = Val(Shr(in, 7) & U(\h1f))]
      bop == Val(Shr(in, 2) & U(\h1f))
      funct7 == IF bop \in boRType THEN Shr(in, 17) & U(\h7f00) ELSE {}
      imm == CASE bop \in boIType -> Shr(in, 20) & U(\hfff)
               [] bop \in boSType -> (Shr(in, 20) & U(\hFE0)) | (Shr(in, 7) & U(\h1f))
               [] bop \in boBType -> (Shr(in, 19) & U(\h1000)) | (Shl(in, 4) & U(\h800))
                                       | (Shr(in, 20) & U(\h7e0)) | (Shr(in, 7) & U(\h1e))
               [] bop \in boUType -> in & (12 .. 31)        \* in & 0xFFFFF000
               [] bop \in boJType -> (Shr(in, 11) & U(\h100000)) | (in & U(\hff000))
                                       | (Shr(in, 9) & U(\h800)) | (Shr(in, 20) & U(\h7fe))
               [] OTHER -> {}
      key == Val(funct7 | (Shr(in, 7) & U(\hE0)) | (Shr(in, 2) & U(\h1f)))
      fn  == rvi64Lookup(key)
  IN  CASE bop \in boUType ->
             DecodeRet([o EXCEPT !.imm = imm,
                                 !.fn = IF bop = \h0D THEN "lui" ELSE "auipc"], 4, "nil")
        [] bop \in boJType -> DecodeRet([o EXCEPT !.imm = imm, !.fn = "jal"], 4, "nil")
        [] bop \in boRType \cup boIType \cup boSType \cup boBType ->
             CASE fn = "panic" -> DecodeRet(NoInstr, 0, "panic")
               [] fn = "nil" -> DecodeRet(NoInstr, 0, "error")
               [] OTHER -> DecodeRet([o EXCEPT !.imm = imm, !.fn = fn], 4, "nil")
        [] OTHER -> DecodeRet(NoInstr, 0, "error")   \* unrecognized format

\* Decode(pc, b): b is a sequence of bytes
Decode(pc, b) ==
  IF Len(b) = 0 \/ Len(b) % 2 # 0 THEN DecodeRet(NoInstr, 0, "error")
  ELSE
  LET ds == decodeSize(b)
  IN  CASE ~ds.ok -> DecodeRet(NoInstr, 0, "error")
        [] ds.ok /\ Len(b) < ds.size -> DecodeRet(NoInstr, 0, "error")
        [] ds.ok /\ Len(b) >= ds.size /\ ds.size = 2 ->
             LET instr == Shl(U(b[2]), 8) | U(b[1])
                 d == rvcDecode(instr)
             IN  IF d.err # "nil" THEN DecodeRet(NoInstr, 2, d.err)
                 ELSE DecodeRet([d.instr EXCEPT !.in = instr], 2, "nil")
        [] ds.ok /\ Len(b) >= ds.size /\ ds.size = 4 -> DecodeRVI(pc, b)
        [] OTHER -> DecodeRet(NoInstr, 0, "error")   \* size is neither 2 nor 4

----------------------------------------------------------------------------
(* rvi.go: the operation handlers.  A handler takes the VM and the          *)
(* instruction and returns the VM it leaves, its flags and its error:      *)
(* "nil", "exit" (exitErr), "error" (any other error), or "panic" when the *)
(* Go runtime stops the process inside the handler.                        *)

Ret(m, fl, err) == [vm |-> m, flags |-> fl, err |-> err, wr |-> <<>>]
Done(m) == Ret(m, NoFlags, "nil")
Jumped(m) == Ret(m, [NoFlags EXCEPT !.updatedPC = TRUE], "nil")
Panic(m) == Ret(m, NoFlags, "panic")

\* whether vm.Mem[a] is in range, for a uint64 a
InMem(m, a) == Fits(a) /\ Val(a) < MemLen(m.Mem)

\* whether vm.Mem[a], vm.Mem[a+1], .. vm.Mem[a+nb-1] are all in range
InRange(m, a, nb) == \A k \in 0 .. nb - 1 : InMem(m, Add(a, U(k)))

\* uint64(vm.Mem[a+k])
MemAt(m, a, k) == U(m.Mem[Val(Add(a, U(k)))])

\* byte(v)
Byte(v) == Val(v & U(\hff))

\* the assignments vm.Mem[a] = bs[1]; vm.Mem[a+1] = bs[2]; ... in order: the
\* first index out of range panics, with the earlier bytes written
RECURSIVE WriteBytes(_, _, _, _)
WriteBytes(m, a, bs, k) ==
  IF k > Len(bs) THEN Done(m)
  ELSE LET ak == Add(a, U(k - 1))
       IN  IF ~InMem(m, ak) THEN Panic(m)
           ELSE WriteBytes([m EXCEPT !.Mem[Val(ak)] = bs[k]], a, bs, k + 1)

\* RV32I Base Instruction Set

lui(m, in) == Done(store(m, in.rd, signExtend(in.imm, 31)))

auipc(m, in) == Done(store(m, in.rd, signExtend(Add(in.imm, m.PC), 31)))

jal(m, in) ==
  LET m1 == store(m, in.rd, Add(m.PC, U(4)))
  IN  Jumped([m1 EXCEPT !.PC = Add(signExtend(in.imm, 19), m1.PC)])

jalr(m, in) ==
  LET m1 == store(m, in.rd, Add(m.PC, U(4)))
  IN  Jumped([m1 EXCEPT !.PC = AndNot(Add(signExtend(in.imm, 12), m1.Reg[in.rs1]), U(1))])

\* the body the six branches share: taken is the comparison
branch(m, in, taken) ==
  IF taken THEN Jumped([m EXCEPT !.PC = Add(m.PC, signExtend(in.imm, 12))])
  ELSE Done(m)

beq(m, in) == branch(m, in, m.Reg[in.rs1] = m.Reg[in.rs2])
bne(m, in) == branch(m, in, m.Reg[in.rs1] # m.Reg[in.rs2])
blt(m, in) == branch(m, in, Slt(m.Reg[in.rs1], m.Reg[in.rs2]))
bge(m, in) == branch(m, in, ~Slt(m.Reg[in.rs1], m.Reg[in.rs2]))
bltu(m, in) == branch(m, in, Ult(m.Reg[in.rs1], m.Reg[in.rs2]))
bgeu(m, in) == branch(m, in, ~Ult(m.Reg[in.rs1], m.Reg[in.rs2]))

lb(m, in) ==
  LET a == Add(m.Reg[in.rs1], signExtend(in.imm, 11))
  IN  IF ~InRange(m, a, 1) THEN Panic(m)
      ELSE Done(store(m, in.rd, signExtend(MemAt(m, a, 0), 7)))

lh(m, in) ==
  LET a == Add(m.Reg[in.rs1], signExtend(in.imm, 11))
  IN  IF ~InRange(m, a, 2) THEN Panic(m)
      ELSE Done(store(m, in.rd,
             signExtend(MemAt(m, a, 0) | Shl(MemAt(m, a, 1), 8), 15)))

lw(m, in) ==
  LET a == Add(m.Reg[in.rs1], signExtend(in.imm, 11))
  IN  IF ~InRange(m, a, 4) THEN Panic(m)
      ELSE Done(store(m, in.rd,
             signExtend(MemAt(m, a, 0) | Shl(MemAt(m, a, 1), 8)
               | Shl(MemAt(m, a, 2), 16) | Shl(MemAt(m, a, 3), 24), 31)))

lbu(m, in) ==
  LET a == Add(m.Reg[in.rs1], signExtend(in.imm, 11))
  IN  IF ~InRange(m, a, 1) THEN Panic(m)
      ELSE Done(store(m, in.rd, MemAt(m, a, 0)))

lhu(m, in) ==
  LET a == Add(m.Reg[in.rs1], signExtend(in.imm, 11))
  IN  IF ~InRange(m, a, 2) THEN Panic(m)
      ELSE Done(store(m, in.rd, MemAt(m, a, 0) | Shl(MemAt(m, a, 1), 8)))

sb(m, in) ==
  WriteBytes(m, Add(m.Reg[in.rs1], signExtend(in.imm, 11)),
             <<Byte(m.Reg[in.rs2] & U(\hff))>>, 1)

\* a sh that writes the high byte first
shHighFirst(m, in) ==
  LET a == Add(m.Reg[in.rs1], signExtend(in.imm, 11))
      v == m.Reg[in.rs2]
  IN  WriteBytes(m, a, <<Byte(Shr(v, 8)), Byte(v)>>, 1)

sh(m, in) ==
  LET a == Add(m.Reg[in.rs1], signExtend(in.imm, 11))
      v == m.Reg[in.rs2]
  IN  WriteBytes(m, a, <<Byte(v), Byte(Shr(v, 8))>>, 1)

sw(m, in) ==
  LET a == Add(m.Reg[in.rs1], signExtend(in.imm, 11))
      v == m.Reg[in.rs2]
  IN  WriteBytes(m, a, <<Byte(v), Byte(Shr(v, 8)), Byte(Shr(v, 16)), Byte(Shr(v, 24))>>, 1)

addi(m, in) ==
  Done(store(m, in.rd, Add(m.Reg[in.rs1], signExtend(in.imm & U(\hfff), 11))))

slti(m, in) ==
  IF Slt(m.Reg[in.rs1], signExtend(in.imm, 11))
  THEN Done(store(m, in.rd, U(1))) ELSE Done(store(m, in.rd, U(0)))

sltiu(m, in) ==
  IF Ult(m.Reg[in.rs1], in.imm)
  THEN Done(store(m, in.rd, U(1))) ELSE Done(store(m, in.rd, U(0)))

xori(m, in) == Done(store(m, in.rd, Xor(m.Reg[in.rs1], signExtend(in.imm, 11))))
ori(m, in) == Done(store(m, in.rd, m.Reg[in.rs1] | signExtend(in.imm, 11)))
andi(m, in) == Done(store(m, in.rd, m.Reg[in.rs1] & signExtend(in.imm, 11)))

add(m, in) == Done(store(m, in.rd, Add(m.Reg[in.rs1], m.Reg[in.rs2])))
sub(m, in) == Done(store(m, in.rd, Sub(m.Reg[in.rs1], m.Reg[in.rs2])))

\* sll shifting by all of Reg[rs2]: a Go shift by 64 or more gives 0
sllUnmasked(m, in) ==
  Done(store(m, in.rd,
    IF m.Reg[in.rs2] \subseteq 0 .. 5 THEN Shl(m.Reg[in.rs1], Val(m.Reg[in.rs2]))
    ELSE {}))

sll(m, in) ==
  Done(store(m, in.rd, Shl(m.Reg[in.rs1], Val(m.Reg[in.rs2] & U(\h3f)))))

slt(m, in) ==
  IF Slt(m.Reg[in.rs1], m.Reg[in.rs2])
  THEN Done(store(m, in.rd, U(1))) ELSE Done(store(m, in.rd, U(0)))

sltu(m, in) ==
  IF Ult(m.Reg[in.rs1], m.Reg[in.rs2])
  THEN Done(store(m, in.rd, U(1))) ELSE Done(store(m, in.rd, U(0)))

xor(m, in) == Done(store(m, in.rd, Xor(m.Reg[in.rs1], m.Reg[in.rs2])))

srl(m, in) ==
  Done(store(m, in.rd, Shr(m.Reg[in.rs1], Val(m.Reg[in.rs2] & U(\h3f)))))

sra(m, in) ==
  Done(store(m, in.rd, Sar(m.Reg[in.rs1], Val(m.Reg[in.rs2] & U(\h3f)))))

or(m, in) == Done(store(m, in.rd, m.Reg[in.rs1] | m.Reg[in.rs2]))
and(m, in) == Done(store(m, in.rd, m.Reg[in.rs1] & m.Reg[in.rs2]))

fence(m, in) == Done(m)
fence_i(m, in) == Done(m)

\* an ecall that reports a failure in a0 before it returns the error
ecallStoreFirst(m, in) ==
  IF m.Reg[regNums["a7"]] = U(\h5D) THEN Ret(m, NoFlags, "exit")
  ELSE Ret(store(m, regNums["a0"], Bits), NoFlags, "error")

\* an ecall that ignores the calls it does not know
ecallAnyCall(m, in) ==
  IF m.Reg[regNums["a7"]] = U(\h5D) THEN Ret(m, NoFlags, "exit") ELSE Done(m)

\* write(2) through fmt.Fprint: every byte is written
ecall(m, in) ==
  LET call == m.Reg[regNums["a7"]]
      fd   == m.Reg[regNums["a0"]]
      buf  == m.Reg[regNums["a1"]]
      end  == Add(buf, m.Reg[regNums["a2"]])      \* buf + n
  IN  CASE call = U(\h5D) -> Ret(m, NoFlags, "exit")
        [] call = U(\h40) /\ fd \notin {U(1), U(2)} -> Ret(m, NoFlags, "error")
        [] call = U(\h40) /\ fd \in {U(1), U(2)} ->
             \* vm.Mem[buf:buf+n] needs 0 <= buf <= buf+n <= cap(vm.Mem)
             IF ~(Fits(buf) /\ Fits(end) /\ Val(buf) <= Val(end)
                    /\ Val(end) <= MemLen(m.Mem))
             THEN Panic(m)
             ELSE [vm |-> store(m, regNums["a0"], U(Val(end) - Val(buf))),
                   flags |-> NoFlags, err |-> "nil",
                   wr |-> <<Val(fd), [k \in 1 .. Val(end) - Val(buf) |->
                                        m.Mem[Val(buf) + k - 1]]>>]
        [] OTHER -> Ret(m, NoFlags, "error")

ebreak(m, in) == Done(m)

ecallOrBreak(m, in) ==
  CASE Shr(in.imm, 12) = U(0) -> ecall(m, in)
    [] Shr(in.imm, 12) = U(1) -> ebreak(m, in)
    [] OTHER -> Panic(m)

\* whether vm.CSR[in.imm] is in range
InCSR(in) == Fits(in.imm) /\ Val(in.imm) < CSRLen

csrrw(m, in) ==
  IF ~InCSR(in) THEN Panic(m)
  ELSE LET c == Val(in.imm)
       IN  IF in.rd = 0
           THEN Ret([m EXCEPT !.CSR[c] = m.Reg[in.rs1]],
                    [NoFlags EXCEPT !.updatedRDINSTRET = (c = RDINSTRET)], "nil")
           ELSE Done(store([m EXCEPT !.CSR[c] = m.Reg[in.rs1]], in.rd, m.CSR[c]))

csrrs(m, in) ==
  IF ~InCSR(in) THEN Panic(m)
  ELSE LET c == Val(in.imm)
           m1 == IF in.rs1 # 0 THEN [m EXCEPT !.CSR[c] = @ | m.Reg[in.rs1]] ELSE m
       IN  Done(store(m1, in.rd, m.CSR[c]))

csrrc(m, in) ==
  IF ~InCSR(in) THEN Panic(m)
  ELSE LET c == Val(in.imm)
           m1 == IF in.rs1 # 0 THEN [m EXCEPT !.CSR[c] = AndNot(@, m.Reg[in.rs1])] ELSE m
       IN  Done(store(m1, in.rd, m.CSR[c]))

csrrwi(m, in) ==
  IF ~InCSR(in) THEN Panic(m)
  ELSE LET c == Val(in.imm)
           uimm == signExtend(U(in.rs1) & U(\h1f), 4)
       IN  IF in.rd = 0 THEN Done([m EXCEPT !.CSR[c] = uimm])
           ELSE Done(store([m EXCEPT !.CSR[c] = uimm], in.rd, m.CSR[c]))

csrrsi(m, in) ==
  IF ~InCSR(in) THEN Panic(m)
  ELSE LET c == Val(in.imm)
           uimm == signExtend(U(in.rs1) & U(\h1f), 4)
           m1 == IF uimm # {} THEN [m EXCEPT !.CSR[c] = @ | uimm] ELSE m
       IN  Done(store(m1, in.rd, m.CSR[c]))

csrrci(m, in) ==
  IF ~InCSR(in) THEN Panic(m)
  ELSE LET c == Val(in.imm)
           uimm == signExtend(U(in.rs1) & U(\h1f), 4)
           m1 == IF uimm # {} THEN [m EXCEPT !.CSR[c] = AndNot(@, uimm)] ELSE m
       IN  Done(store(m1, in.rd, m.CSR[c]))

\* RV64I Base Instruction Set

lwu(m, in) ==
  LET a == Add(m.Reg[in.rs1], signExtend(in.imm, 11))
  IN  IF ~InRange(m, a, 4) THEN Panic(m)
      ELSE Done(store(m, in.rd,
             MemAt(m, a, 0) | Shl(MemAt(m, a, 1), 8)
               | Shl(MemAt(m, a, 2), 16) | Shl(MemAt(m, a, 3), 24)))

ld(m, in) ==
  LET a == Add(m.Reg[in.rs1], signExtend(in.imm, 11))
  IN  IF ~InRange(m, a, 8) THEN Panic(m)
      ELSE Done(store(m, in.rd,
             MemAt(m, a, 0) | Shl(MemAt(m, a, 1), 8)
               | Shl(MemAt(m, a, 2), 16) | Shl(MemAt(m, a, 3), 24)
               | Shl(MemAt(m, a, 4), 32) | Shl(MemAt(m, a, 5), 40)
               | Shl(MemAt(m, a, 6), 48) | Shl(MemAt(m, a, 7), 56)))

sd(m, in) ==
  LET a == Add(m.Reg[in.rs1], signExtend(in.imm, 11))
      v == m.Reg[in.rs2]
  IN  WriteBytes(m, a, <<Byte(v), Byte(Shr(v, 8)), Byte(Shr(v, 16)), Byte(Shr(v, 24)),
                         Byte(Shr(v, 32)), Byte(Shr(v, 40)), Byte(Shr(v, 48)),
                         Byte(Shr(v, 56))>>, 1)

slli(m, in) == Done(store(m, in.rd, Shl(m.Reg[in.rs1], Val(in.imm & U(\h3f)))))

srli(m, in) == Done(store(m, in.rd, Shr(m.Reg[in.rs1], Val(in.imm & U(\h3f)))))

srai(m, in) == Done(store(m, in.rd, Sar(m.Reg[in.rs1], Val(in.imm & U(\h3f)))))

shiftRight(m, in) ==
  CASE (in.imm & U(\hFC00)) = U(\h00) -> srli(m, in)
    [] (in.imm & U(\hFC00)) = U(\h10) -> srai(m, in)
    [] OTHER -> Panic(m)

addiw(m, in) ==
  Done(store(m, in.rd, I32(Add(I32(m.Reg[in.rs1]),
                               I32(signExtend(in.imm & U(\hfff), 11))))))

slliw(m, in) ==
  Done(store(m, in.rd,
    signExtend(U32(Shl(U32(m.Reg[in.rs1]), Val(in.imm & U(\h1f)))), 31)))

srliw(m, in) ==
  Done(store(m, in.rd,
    signExtend(Shr(U32(m.Reg[in.rs1]), Val(in.imm & U(\h1f))), 31)))

sraiw(m, in) ==
  Done(store(m, in.rd, Sar(I32(m.Reg[in.rs1]), Val(in.imm & U(\h1f)))))

addw(m, in) ==
  Done(store(m, in.rd, I32(Add(I32(m.Reg[in.rs1]), I32(m.Reg[in.rs2])))))

subw(m, in) ==
  Done(store(m, in.rd, I32(Sub(I32(m.Reg[in.rs1]), I32(m.Reg[in.rs2])))))

sllw(m, in) ==
  Done(store(m, in.rd,
    signExtend(U32(Shl(U32(m.Reg[in.rs1]), Val(U32(m.Reg[in.rs2] & U(\h1f))))), 31)))

srlw(m, in) ==
  Done(store(m, in.rd,
    signExtend(Shr(U32(m.Reg[in.rs1]), Val(U32(m.Reg[in.rs2] & U(\h1f)))), 31)))

sraw(m, in) ==
  Done(store(m, in.rd, Sar(I32(m.Reg[in.rs1]), Val(U32(m.Reg[in.rs2] & U(\h1f))))))

\* "M" Standard extension for Integer Multiplication and Division

mul(m, in) == Done(store(m, in.rd, Mul(m.Reg[in.rs1], m.Reg[in.rs2])))

\* the line the three high-word multiplications share, for the magnitudes
\* x and y: a + b>>32 + c>>32 + (d>>32 + b&0xffffffff + c&0xffffffff)>>32
HighWord(x, y) ==
  LET ah == Shr(x, 32)
      al == x & Mask(32)
      bh == Shr(y, 32)
      bl == y & Mask(32)
      a  == Mul(ah, bh)
      b  == Mul(ah, bl)
      c  == Mul(al, bh)
      d  == Mul(al, bl)
  IN  Add(Add(Add(a, Shr(b, 32)), Shr(c, 32)),
          Shr(Add(Add(Shr(d, 32), b & Mask(32)), c & Mask(32)), 32))

mulh(m, in) ==
  LET n1 == m.Reg[in.rs1]
      n2 == m.Reg[in.rs2]
      neg1 == 63 \in n1
      neg2 == 63 \in n2
      v == HighWord(IF neg1 THEN Neg(n1) ELSE n1, IF neg2 THEN Neg(n2) ELSE n2)
  IN  Done(store(m, in.rd, IF neg1 # neg2 THEN Neg(v) ELSE v))

mulhsu(m, in) ==
  LET n1 == m.Reg[in.rs1]
      n2 == m.Reg[in.rs2]
      neg == 63 \in n1
      v == HighWord(IF neg THEN Neg(n1) ELSE n1, n2)
  IN  Done(store(m, in.rd, IF neg THEN Neg(v) ELSE v))

mulhu(m, in) == Done(store(m, in.rd, HighWord(m.Reg[in.rs1], m.Reg[in.rs2])))

mulw(m, in) ==
  Done(store(m, in.rd, I32(Mul(I32(m.Reg[in.rs1]), I32(m.Reg[in.rs2])))))

\* div stopping on the overflow of the most negative dividend by -1
divTrapOverflow(m, in) ==
  CASE m.Reg[in.rs2] = {} -> Done(store(m, in.rd, Bits))
    [] m.Reg[in.rs1] = {63} /\ m.Reg[in.rs2] = Bits -> Panic(m)
    [] OTHER -> Done(store(m, in.rd, Sdiv(m.Reg[in.rs1], m.Reg[in.rs2])))

div(m, in) ==
  IF m.Reg[in.rs2] = {} THEN Done(store(m, in.rd, Bits))
  ELSE Done(store(m, in.rd, Sdiv(m.Reg[in.rs1], m.Reg[in.rs2])))

divu(m, in) ==
  IF m.Reg[in.rs2] = {} THEN Done(store(m, in.rd, Bits))
  ELSE Done(store(m, in.rd, Udiv(m.Reg[in.rs1], m.Reg[in.rs2])))

divw(m, in) ==
  IF I32(m.Reg[in.rs2]) = {} THEN Done(store(m, in.rd, Bits))
  ELSE Done(store(m, in.rd,
         signExtend(I32(Sdiv(I32(m.Reg[in.rs1]), I32(m.Reg[in.rs2]))), 31)))

divuw(m, in) ==
  IF U32(m.Reg[in.rs2]) = {} THEN Done(store(m, in.rd, Bits))
  ELSE Done(store(m, in.rd,
         signExtend(Udiv(U32(m.Reg[in.rs1]), U32(m.Reg[in.rs2])), 31)))

rem(m, in) ==
  IF m.Reg[in.rs2] = {} THEN Done(store(m, in.rd, m.Reg[in.rs1]))
  ELSE Done(store(m, in.rd, Srem(m.Reg[in.rs1], m.Reg[in.rs2])))

remu(m, in) ==
  IF m.Reg[in.rs2] = {} THEN Done(store(m, in.rd, m.Reg[in.rs1]))
  ELSE Done(store(m, in.rd, Urem(m.Reg[in.rs1], m.Reg[in.rs2])))

\* int32(a) % int32(b) with int32(b) == 0 is a run-time panic of Go
remw(m, in) ==
  CASE m.Reg[in.rs2] = {} -> Done(store(m, in.rd, m.Reg[in.rs1]))
    [] m.Reg[in.rs2] # {} /\ I32(m.Reg[in.rs2]) = {} -> Panic(m)
    [] OTHER -> Done(store(m, in.rd, I32(Srem(I32(m.Reg[in.rs1]), I32(m.Reg[in.rs2])))))

remuw(m, in) ==
  CASE m.Reg[in.rs2] = {} -> Done(store(m, in.rd, m.Reg[in.rs1]))
    [] m.Reg[in.rs2] # {} /\ U32(m.Reg[in.rs2]) = {} -> Panic(m)
    [] OTHER -> Done(store(m, in.rd,
                  signExtend(Urem(U32(m.Reg[in.rs1]), U32(m.Reg[in.rs2])), 31)))

\* rvc.go: the jumps of the compressed instructions

rvcJAL(m, in) ==
  LET m1 == store(m, in.rd, Add(m.PC, U(2)))
  IN  Jumped([m1 EXCEPT !.PC = Add(in.imm, m1.PC)])

rvcJALR(m, in) ==
  LET m1 == store(m, in.rd, Add(m.PC, U(2)))
  IN  Jumped([m1 EXCEPT !.PC = AndNot(Add(in.imm, m1.Reg[in.rs1]), U(1))])

\* in.fn(vm, in): the call through the function value
Call(m, in) ==
  CASE in.fn = "lui" -> lui(m, in)       [] in.fn = "auipc" -> auipc(m, in)
    [] in.fn = "jal" -> jal(m, in)       [] in.fn = "jalr" -> jalr(m, in)
    [] in.fn = "beq" -> beq(m, in)       [] in.fn = "bne" -> bne(m, in)
    [] in.fn = "blt" -> blt(m, in)       [] in.fn = "bge" -> bge(m, in)
    [] in.fn = "bltu" -> bltu(m, in)     [] in.fn = "bgeu" -> bgeu(m, in)
    [] in.fn = "lb" -> lb(m, in)         [] in.fn = "lh" -> lh(m, in)
    [] in.fn = "lw" -> lw(m, in)         [] in.fn = "lbu" -> lbu(m, in)
    [] in.fn = "lhu" -> lhu(m, in)       [] in.fn = "sb" -> sb(m, in)
    [] in.fn = "sh" -> sh(m, in)         [] in.fn = "sw" -> sw(m, in)
    [] in.fn = "addi" -> addi(m, in)     [] in.fn = "slti" -> slti(m, in)
    [] in.fn = "sltiu" -> sltiu(m, in)   [] in.fn = "xori" -> xori(m, in)
    [] in.fn = "ori" -> ori(m, in)       [] in.fn = "andi" -> andi(m, in)
    [] in.fn = "add" -> add(m, in)       [] in.fn = "sub" -> sub(m, in)
    [] in.fn = "sll" -> sll(m, in)       [] in.fn = "slt" -> slt(m, in)
    [] in.fn = "sltu" -> sltu(m, in)     [] in.fn = "xor" -> xor(m, in)
    [] in.fn = "srl" -> srl(m, in)       [] in.fn = "sra" -> sra(m, in)
    [] in.fn = "or" -> or(m, in)         [] in.fn = "and" -> and(m, in)
    [] in.fn = "fence" -> fence(m, in)   [] in.fn = "fence_i" -> fence_i(m, in)
    [] in.fn = "ecallOrBreak" -> ecallOrBreak(m, in)
    [] in.fn = "ebreak" -> ebreak(m, in)
    [] in.fn = "csrrw" -> csrrw(m, in)   [] in.fn = "csrrs" -> csrrs(m, in)
    [] in.fn = "csrrc" -> csrrc(m, in)   [] in.fn = "csrrwi" -> csrrwi(m, in)
    [] in.fn = "csrrsi" -> csrrsi(m, in) [] in.fn = "csrrci" -> csrrci(m, in)
    [] in.fn = "lwu" -> lwu(m, in)       [] in.fn = "ld" -> ld(m, in)
    [] in.fn = "sd" -> sd(m, in)         [] in.fn = "slli" -> slli(m, in)
    [] in.fn = "srli" -> srli(m, in)     [] in.fn = "srai" -> srai(m, in)
    [] in.fn = "shiftRight" -> shiftRight(m, in)
    [] in.fn = "addiw" -> addiw(m, in)   [] in.fn = "slliw" -> slliw(m, in)
    [] in.fn = "srliw" -> srliw(m, in)   [] in.fn = "sraiw" -> sraiw(m, in)
    [] in.fn = "addw" -> addw(m, in)     [] in.fn = "subw" -> subw(m, in)
    [] in.fn = "sllw" -> sllw(m, in)     [] in.fn = "srlw" -> srlw(m, in)
    [] in.fn = "sraw" -> sraw(m, in)
    [] in.fn = "mul" -> mul(m, in)       [] in.fn = "mulh" -> mulh(m, in)
    [] in.fn = "mulhsu" -> mulhsu(m, in) [] in.fn = "mulhu" -> mulhu(m, in)
    [] in.fn = "mulw" -> mulw(m, in)     [] in.fn = "div" -> div(m, in)
    [] in.fn = "divu" -> divu(m, in)     [] in.fn = "divw" -> divw(m, in)
    [] in.fn = "divuw" -> divuw(m, in)   [] in.fn = "rem" -> rem(m, in)
    [] in.fn = "remu" -> remu(m, in)     [] in.fn = "remw" -> remw(m, in)
    [] in.fn = "remuw" -> remuw(m, in)
    [] in.fn = "rvcJAL" -> rvcJAL(m, in) [] in.fn = "rvcJALR" -> rvcJALR(m, in)

----------------------------------------------------------------------------
(* pty.go: VM.Run, one iteration of its loop at a time *)

\* a loop that runs once more: i <= n
LoopCondInclusive(ii, nn) == ii <= nn

\* the loop condition of Run: i < n
LoopCond(ii, nn) == ii < nn

\* whether the slice expression vm.Mem[vm.PC:end] is in range: end is
\* int(vm.PC + 4), lowered to len(vm.Mem) when it is larger
FetchInRange(m) == Fits(m.PC) /\ Val(m.PC) <= MemLen(m.Mem)

\* vm.Mem[vm.PC:end] as a sequence of bytes
Fetch(m) ==
  LET pc  == Val(m.PC)
      end == IF pc + 4 > MemLen(m.Mem) THEN MemLen(m.Mem) ELSE pc + 4
  IN  [k \in 1 .. end - pc |-> m.Mem[pc + k - 1]]

\* a loop that advances PC whatever the handler did
NextPCAlways(pc, fl, sz) == Add(pc, U(sz))

\* if !out.updatedPC { vm.PC += uint64(size) }
NextPC(pc, fl, sz) == IF fl.updatedPC THEN pc ELSE Add(pc, U(sz))

\* the end of an iteration whose handler returned no error: vm.Steps++, the
\* increment of RDINSTRET and the advance of PC, each unless the flag is set
Advance(m, fl, sz) ==
  [m EXCEPT !.Steps = @ + 1,
            !.CSR[RDINSTRET] = IF fl.updatedRDINSTRET THEN @ ELSE Add(@, U(1)),
            !.PC = NextPC(@, fl, sz)]

\* what an iteration leaves: the VM, how the loop goes on ("running", or what
\* Run returns, or "panic"), and the locals size and out
StepRet(m, st, sz, fl, wr) ==
  [vm |-> m, status |-> st, size |-> sz, flags |-> fl, wr |-> wr]

\* a loop that counts the step before it looks at the error
StepCalledCounting(sz, r) ==
  IF r.err # "nil"
  THEN StepRet([r.vm EXCEPT !.Steps = @ + 1], r.err, sz, r.flags, <<>>)
  ELSE StepRet(Advance(r.vm, r.flags, sz), "running", sz, r.flags, r.wr)

\* the loop from the call of the handler on: in is the decoded instruction,
\* sz its size and r what in.fn(vm, in) returned
StepCalled(sz, r) ==
  IF r.err # "nil" THEN StepRet(r.vm, r.err, sz, r.flags, <<>>)
  ELSE StepRet(Advance(r.vm, r.flags, sz), "running", sz, r.flags, r.wr)

\* the loop from the return of Decode on: d is what Decode returned
StepDecoded(m, d) ==
  CASE d.err # "nil" -> StepRet(m, d.err, d.size, NoFlags, <<>>)
    [] d.err = "nil" /\ d.instr.fn = "nil" ->
         StepRet([m EXCEPT !.LastPC = m.PC, !.LastInstr = d.instr],
                 "error", d.size, NoFlags, <<>>)
    [] OTHER ->
         StepCalled(d.size,
                    Call([m EXCEPT !.LastPC = m.PC, !.LastInstr = d.instr], d.instr))

\* the body of the loop of Run
Step(m) ==
  IF ~FetchInRange(m) THEN StepRet(m, "panic", 0, NoFlags, <<>>)
  ELSE StepDecoded(m, Decode(m.PC, Fetch(m)))

----------------------------------------------------------------------------
(* The programs the model runs.  An instruction is written by its fields   *)
(* and laid out in memory as the little-endian bytes of its encoding.      *)

Word(w) == <<Field(w, 0, 8), Field(w, 8, 8), Field(w, 16, 8), Field(w, 24, 8)>>
Half(w) == <<Field(w, 0, 8), Field(w, 8, 8)>>

EncR(f7, rs2, rs1, f3, rd, op) ==
  Word(Shl(U(f7), 25) | Shl(U(rs2), 20) | Shl(U(rs1), 15) | Shl(U(f3), 12)
         | Shl(U(rd), 7) | U(op))

\* imm is the 12-bit field, 0 .. 4095
EncI(imm, rs1, f3, rd, op) ==
  Word(Shl(U(imm), 20) | Shl(U(rs1), 15) | Shl(U(f3), 12) | Shl(U(rd), 7) | U(op))

EncS(imm, rs2, rs1, f3, op) ==
  Word(Shl(Shr(U(imm), 5), 25) | Shl(U(rs2), 20) | Shl(U(rs1), 15) | Shl(U(f3), 12)
         | Shl(U(imm) & U(\h1f), 7) | U(op))

\* imm is the 13-bit branch offset in two's complement, 0 .. 8191, even
EncB(imm, rs2, rs1, f3) ==
  Word(Shl(U(imm) & U(\h1000), 19) | Shl(U(imm) & U(\h7e0), 20) | Shl(U(rs2), 20)
         | Shl(U(rs1), 15) | Shl(U(f3), 12) | Shl(U(imm) & U(\h1e), 7)
         | Shr(U(imm) & U(\h800), 4) | U(\h63))

\* imm is the 20-bit field
EncU(imm, rd, op) == Word(Shl(U(imm), 12) | Shl(U(rd), 7) | U(op))

\* imm is the 21-bit jump offset in two's complement, 0 .. 2^21 - 1, even
EncJ(imm, rd) ==
  Word(Shl(U(imm) & U(\h100000), 11) | Shl(U(imm) & U(\h7fe), 20)
         | Shl(U(imm) & U(\h800), 9) | (U(imm) & U(\hff000)) | Shl(U(rd), 7) | U(\h6f))

\* a compressed instruction, by its 16-bit encoding
EncC(h) == Half(U(h))

ADDI(rd, rs1, imm) == EncI(imm, rs1, 0, rd, \h13)
NOP == ADDI(0, 0, 0)
JALR(rd, rs1, imm) == EncI(imm, rs1, 0, rd, \h67)
JAL(rd, imm) == EncJ(imm, rd)
ECALL == EncI(0, 0, 0, 0, \h73)
EBREAK == EncI(1, 0, 0, 0, \h73)
CSRRW(rd, csr, rs1) == EncI(csr, rs1, 1, rd, \h73)
CSRRS(rd, csr, rs1) == EncI(csr, rs1, 2, rd, \h73)
CSRRC(rd, csr, rs1) == EncI(csr, rs1, 3, rd, \h73)
CSRRWI(rd, csr, z) == EncI(csr, z, 5, rd, \h73)
CSRRSI(rd, csr, z) == EncI(csr, z, 6, rd, \h73)
CSRRCI(rd, csr, z) == EncI(csr, z, 7, rd, \h73)


\* Prog.MemSize of the machines main and diffWithSpike build
MemSize == 64

\* the VM NewVM returns to main, and its len(vm.Mem): MemSize and the
\* strings and the table
MainVM == NewVMProg(MainProg(MemSize))
MemEnd == StackMemSize(MainProg(MemSize))

\* the largest argument of Run, and the number of calls of Run
MaxN == 3
MaxCalls == 2

\* the registers the programs use
t0 == regNums["t0"]
t1 == regNums["t1"]
a0 == regNums["a0"]
a1 == regNums["a1"]
a2 == regNums["a2"]
a7 == regNums["a7"]

\* the field of a negative 12-bit immediate
Neg12(k) == 4096 - k

Cat3(x, y, z) == x \o y \o z
Cat4(w, x, y, z) == w \o x \o y \o z

Programs ==
  << \* writes to x0: addi, lui, add, jal
     Cat4(ADDI(0, 0, 5), EncU(\h12345, 0, \h37), EncR(0, 0, 0, 0, 0, \h33), JAL(0, 8)),
     \* jalr: a negative offset, an odd target, rd = rs1, a forward offset
     ADDI(t0, 0, \h20) \o JALR(RA, t0, Neg12(8)),
     ADDI(t0, 0, \h21) \o JALR(RA, t0, 0),
     ADDI(t0, 0, \h20) \o JALR(t0, t0, 4),
     Cat3(ADDI(t0, 0, 4), JALR(t1, t0, 7), ADDI(t1, t1, 1)),
     \* jal: forward, backward, and the two ends of the range
     Cat3(JAL(RA, 8), NOP, ADDI(t0, 0, 1)),
     Cat3(NOP, NOP, JAL(RA, 2097152 - 8)),
     JAL(RA, \h80000),
     JAL(RA, \hFFFFE),
     JAL(RA, \h100000),
     NOP \o JAL(t0, \h180000),
     \* ebreak and ecall
     EBREAK \o ADDI(t0, 0, 1),
     Cat3(ADDI(a7, 0, \h5D), EBREAK, ADDI(t0, 0, 1)),
     Cat3(ADDI(a7, 0, \h40), EBREAK, ADDI(t0, 0, 1)),
     ADDI(a7, 0, \h5D) \o ECALL,
     Cat4(ADDI(a7, 0, \h40), ADDI(a0, 0, 1), ADDI(a2, 0, 4), ECALL) \o ADDI(t0, a0, 0),
     Cat4(ADDI(a7, 0, \h40), ADDI(a0, 0, 2), ADDI(a2, 0, \h7ff), ECALL),
     Cat3(ADDI(a7, 0, \h40), ADDI(a0, 0, 3), ECALL),
     Cat3(ADDI(a7, 0, \h41), ADDI(t0, 0, 9), ECALL),
     \* the right shifts by an immediate
     Cat3(ADDI(t0, 0, Neg12(1)), EncI(3, t0, 5, t1, \h13), EncI(\h3f, t0, 5, t1, \h13)),
     ADDI(t0, 0, Neg12(1)) \o EncI(\h400 + 3, t0, 5, t1, \h13),
     ADDI(t0, 0, Neg12(1)) \o EncI(\hC0 + 3, t0, 5, t1, \h13),
     ADDI(t0, 0, Neg12(1)) \o EncI(\h800 + 3, t0, 5, t1, \h13),
     Cat3(ADDI(t0, 0, Neg12(1)), EncI(3, t0, 1, t1, \h13), EncI(1, t1, 5, t1, \h13)),
     \* the word shifts by an immediate
     ADDI(t0, 0, Neg12(1)) \o EncI(\h400 + 1, t0, 5, t1, \h1b),
     ADDI(t0, 0, Neg12(1)) \o EncI(1, t0, 5, t1, \h1b),
     Cat3(ADDI(t0, 0, 1), EncI(31, t0, 1, t1, \h1b), EncI(\h400 + 4, t1, 5, t1, \h1b)),
     \* the CSR instructions on RDINSTRET and on the ends of the CSR file
     Cat3(ADDI(t0, 0, 7), CSRRW(0, RDINSTRET, t0), CSRRS(t1, RDINSTRET, 0)),
     Cat3(ADDI(t0, 0, 7), CSRRW(t1, RDINSTRET, t0), CSRRS(t1, RDINSTRET, 0)),
     Cat3(ADDI(t0, 0, 8), CSRRS(t1, RDINSTRET, t0), CSRRC(t1, RDINSTRET, t0)),
     Cat3(CSRRWI(0, RDINSTRET, 9), CSRRSI(t1, RDINSTRET, 4), CSRRCI(t1, RDINSTRET, 1)),
     Cat3(ADDI(t0, 0, 7), CSRRW(0, RDCYCLE, t0), CSRRW(t1, \h7ff, t0)),
     ADDI(t0, 0, 7) \o CSRRW(0, \h800, t0),
     \* encodings Decode refuses
     EncR(\h7f, 0, 0, 0, t0, \h33),
     EncR(2, 0, 0, 0, t0, \h33),
     EncI(0, 0, 0, t0, \h0b),
     <<\h1f, 0, 0, 0>>,
     <<\h3f, 0, 0, 0>>,
     <<\h7f, 0, 0, 0>>,
     <<\h7f, \h70, 0, 0>>,
     \* loads and stores, in range and out of range
     Cat3(ADDI(t0, 0, Neg12(2)), EncS(32, t0, 0, 3, \h23), EncI(32, 0, 3, t1, \h03)),
     Cat3(ADDI(t0, 0, \h7f), EncS(40, t0, 0, 0, \h23), EncI(40, 0, 0, t1, \h03)),
     ADDI(t0, 0, Neg12(2)) \o EncS(MemEnd - 2, t0, 0, 2, \h23),
     EncI(Neg12(1), 0, 2, t1, \h03),
     \* branches
     Cat4(EncB(8, 0, 0, 0), NOP, ADDI(t0, 0, Neg12(1)), EncB(8192 - 8, 0, t0, 4)),
     Cat3(EncB(8, 0, 0, 1), ADDI(t0, 0, 1), EncB(8, 0, t0, 6)),
     \* lui, auipc and the M extension
     Cat3(EncU(\h80000, t0, \h37), EncU(1, t1, \h17), EncR(1, t0, t0, 0, t1, \h33)),
     Cat3(ADDI(t0, 0, Neg12(7)), EncR(1, 0, t0, 4, t1, \h33), EncR(1, 0, t0, 6, t1, \h33)),
     \* compressed instructions: c.li, c.addi, c.mv, c.add, c.j
     Cat4(EncC(\h428D), EncC(\h0285), EncC(\h8316), EncC(\h9316)) \o EncC(\hA011),
     \* c.li, c.jr; c.li, c.jalr; c.ebreak; c.fld
     Cat3(EncC(\h42A1), EncC(\h8282), NOP),
     Cat3(EncC(\h42A1), EncC(\h9282), NOP),
     \* c.li ra, 8; c.jalr ra
     Cat3(EncC(\h40A1), EncC(\h9082), NOP),
     \* addi s0, x0, -1; c.andi s0, -1 and c.andi s0, 5
     ADDI(regNums["s0"], 0, \hfff) \o EncC(\h987D),
     ADDI(regNums["s0"], 0, \hfff) \o EncC(\h8815),
     EncC(\h9002) \o EncC(\h2000),
     \* jumps to the end of the memory and past it
     ADDI(t0, 0, MemEnd - 2) \o JALR(0, t0, 0),
     Cat4(ADDI(t0, 0, \h13), EncS(MemEnd - 2, t0, 0, 1, \h23),
          ADDI(t1, 0, MemEnd - 2), JALR(0, t1, 0)),
     ADDI(t0, 0, MemEnd) \o JALR(0, t0, 0),
     ADDI(t0, 0, MemEnd + 2) \o JALR(0, t0, 0),
     \* CSR read-modify-write on a CSR that holds a value; the immediate forms
     Cat4(ADDI(t0, 0, \h35), CSRRWI(0, \h340, \h0a), CSRRS(t1, \h340, t0),
          CSRRC(a0, \h340, t0)),
     Cat3(CSRRWI(t0, \h7ff, \h1f), CSRRCI(t1, \h7ff, \h03), CSRRSI(a0, \h7ff, \h11)),
     \* CSR numbers 0x800 .. 0xfff: rdcycle (csrrs t1, 0xc00, x0) and the others
     CSRRS(t1, \hc00, 0),
     CSRRC(t1, \h801, 0),
     CSRRWI(0, \hfff, 1),
     CSRRSI(t1, \hfff, 0),
     CSRRCI(t1, \h800, 1),
     \* compressed encodings that are reserved or not supported: selector
     \* 0x10, the op-op forms 0x1e and 0x1f, c.fsd, c.fldsp, c.fsdsp
     EncC(\h8000),
     EncC(\h9C41),
     EncC(\h9C61),
     EncC(\hA000),
     EncC(\h2002),
     EncC(\hA002),
     \* R-type keys past the end of the operation table, and inside it
     EncR(\h20, 0, 0, 7, t0, \h33),
     EncR(\h21, 0, 0, 0, t0, \h3b),
     EncR(\h20, 0, 0, 1, t0, \h33),
     EncI(0, 0, 2, t0, \h1b),
     \* write to stderr from address 2, and a write of no bytes
     Cat4(ADDI(a7, 0, \h40), ADDI(a0, 0, 2), ADDI(a1, 0, 2), ADDI(a2, 0, 3)) \o ECALL,
     Cat3(ADDI(a7, 0, \h40), ADDI(a0, 0, 1), ECALL),
     \* a section four bytes longer than memory
     [k \in 1 .. MemEnd + 4 |-> NOP[((k - 1) % 4) + 1]] >>

\* s.ReadAt(vm.Mem[s.Addr:s.Addr+s.Size], 0) for a section of the bytes bs
\* at addr, of which the file gives rd: the slice expression panics when the
\* section does not lie inside vm.Mem, and nothing is read; otherwise the
\* first rd bytes are read into vm.Mem, and ReadAt returns an error when
\* these are not all
Load(m, addr, bs, rd) ==
  IF addr + Len(bs) > MemLen(m.Mem) THEN [vm |-> m, err |-> "panic"]
  ELSE [vm |-> [m EXCEPT !.Mem = [a \in DOMAIN m.Mem |->
                  IF a >= addr /\ a < addr + rd THEN bs[a - addr + 1]
                  ELSE m.Mem[a]]],
        err |-> IF rd < Len(bs) THEN "error" ELSE "nil"]

\* the numbers of bytes the file gives of a section of the bytes bs: a half
\* of them, or all
Reads(bs) == {Len(bs) \div 2, Len(bs)}

\* what main and the test of NewVM do with the result of loading: Run is
\* called ("idle"), the panic ends the process, or main prints "Can't load
\* section" and calls os.Exit(1)
LoadStatus(l) ==
  IF l.err = "nil" THEN "idle" ELSE IF l.err = "panic" THEN "panic" ELSE "os.Exit"

\* main up to the call of Run, for a program file of one section of the
\* bytes bs at address 0 and entry 0, of which the file gives rd
Main(bs, rd) == Load(MainVM, 0, bs, rd)

\* the VM and the status main leaves, l being the result of loading
MainTo(l) ==
  /\ vm = l.vm
  /\ status = LoadStatus(l)

----------------------------------------------------------------------------
(* Programs that bring operands from memory: two ld load the doublewords  *)
(* at 16 and 24 into a1 and a2, and the third instruction works on them.   *)

\* the uint64 with the 16-bit limbs a, b, c, d, the most significant first
W64(a, b, c, d) == Shl(U(a), 48) | Shl(U(b), 32) | Shl(U(c), 16) | U(d)

\* the 8 bytes of a uint64, the least significant first
Bytes8(v) == [k \in 1 .. 8 |-> Field(v, 8 * (k - 1), 8)]

\* operand values: 0, 1, -1, 2^31, 2^32, 2^32 - 1, the most negative int64,
\* the most negative int32 and a value whose bytes all differ
Samples ==
  { {}, U(1), Bits, {31}, {32}, 0 .. 31, {63}, 31 .. 63,
    W64(\h0123, \h4567, \h89AB, \hCDEF) }

LD(rd, rs1, imm) == EncI(imm, rs1, 3, rd, \h03)

\* ld a1, 16(x0); ld a2, 24(x0); op; x at 16 and y at 24
OpProgram(op, x, y) ==
  LD(a1, 0, 16) \o LD(a2, 0, 24) \o op \o <<0, 0, 0, 0>> \o Bytes8(x) \o Bytes8(y)

\* <<funct7, funct3, opcode>> of the register-register operations on a1, a2
RegOps ==
  { <<\h00, 0, \h3b>>, <<\h20, 0, \h3b>>, <<\h00, 1, \h3b>>, <<\h00, 5, \h3b>>,
    <<\h20, 5, \h3b>>,                           \* addw subw sllw srlw sraw
    <<1, 0, \h3b>>, <<1, 4, \h3b>>, <<1, 5, \h3b>>, <<1, 6, \h3b>>,
    <<1, 7, \h3b>>,                              \* mulw divw divuw remw remuw
    <<1, 1, \h33>>, <<1, 2, \h33>>, <<1, 3, \h33>>,          \* mulh mulhsu mulhu
    <<1, 4, \h33>>, <<1, 5, \h33>>, <<1, 6, \h33>>, <<1, 7, \h33>> }
                                                 \* div divu rem remu

\* <<imm, funct3, opcode>> of the register-immediate operations on a1
ImmOps ==
  { <<1, 0, \h1b>>, <<\hfff, 0, \h1b>>, <<\h7ff, 0, \h1b>>,      \* addiw
    <<1, 1, \h1b>>, <<31, 1, \h1b>>,                            \* slliw
    <<1, 5, \h1b>>, <<31, 5, \h1b>>, <<\h401, 5, \h1b>>,         \* srliw, sraiw
    <<0, 3, \h13>>, <<1, 3, \h13>>, <<\h7ff, 3, \h13>>,
    <<\h800, 3, \h13>>, <<\hfff, 3, \h13>> }                     \* sltiu

\* <<funct3 of the store, funct3 of the load>>: sb/lb, sb/lbu, sh/lh, sh/lhu,
\* sw/lw, sw/lwu, sd/ld
MemOps == { <<0, 0>>, <<0, 4>>, <<1, 1>>, <<1, 5>>, <<2, 2>>, <<2, 6>>, <<3, 3>> }

\* the addresses stored to: doubleword aligned, unaligned, and the last 8,
\* 4, 2 and 1 bytes of memory
MemAddrs == { 32, 43, MemEnd - 8, MemEnd - 4, MemEnd - 2, MemEnd - 1 }

\* ld a1, 16(x0); store a1 at addr; load a0 from addr
MemProgram(f3s, f3l, addr, x) ==
  LD(a1, 0, 16) \o EncS(addr, a1, 0, f3s, \h23) \o EncI(addr, 0, f3l, a0, \h03)
    \o <<0, 0, 0, 0>> \o Bytes8(x)

OpPrograms ==
  {OpProgram(EncR(o[1], a2, a1, o[2], a0, o[3]), x, y) :
     o \in RegOps, x \in Samples, y \in Samples}
  \cup {OpProgram(EncI(o[1], a1, o[2], a0, o[3]), x, {}) : o \in ImmOps, x \in Samples}
  \cup {MemProgram(o[1], o[2], a, x) : o \in MemOps, a \in MemAddrs, x \in Samples}

----------------------------------------------------------------------------
(* The state machine: a VM is built and loaded, and Run is called on it *)

\* no function is called directly and no diff harness runs
NoAux ==
  /\ tt = <<>>
  /\ got = <<>>
  /\ spike = <<>>
  /\ fds = {}
  /\ diff = <<>>

Init ==
  /\ \E p \in 1 .. Len(Programs) : \E rd \in Reads(Programs[p]) :
       MainTo(Main(Programs[p], rd))
  /\ n = 0
  /\ i = 0
  /\ size = 0
  /\ out = NoFlags
  /\ prev = vm
  /\ vm0 = vm
  /\ calls = 0
  /\ streams = <<>>
  /\ NoAux

\* a call of Run(k) on a VM no call is running on
RunCall(k) ==
  /\ status \in {"idle", "nil", "error", "exit"}
  /\ calls < MaxCalls
  /\ status' = "running"
  /\ n' = k
  /\ i' = 0
  /\ vm0' = vm
  /\ calls' = calls + 1
  /\ UNCHANGED <<vm, size, out, prev, streams>>
  /\ UNCHANGED aux

\* the assignments of one iteration, s being what the body of the loop leaves
RunStepTo(s) ==
  /\ vm' = s.vm
  /\ status' = s.status
  /\ i' = IF s.status = "running" THEN i + 1 ELSE i
  /\ size' = s.size
  /\ out' = s.flags
  /\ streams' = IF s.wr = <<>> THEN streams ELSE Append(streams, s.wr)

\* one iteration of the loop
RunStep ==
  /\ status = "running"
  /\ LoopCond(i, n)
  /\ RunStepTo(Step(vm))
  /\ prev' = vm
  /\ UNCHANGED <<n, vm0, calls>>
  /\ UNCHANGED aux

\* the loop ends and Run returns nil
RunReturn ==
  /\ status = "running"
  /\ ~LoopCond(i, n)
  /\ status' = "nil"
  /\ UNCHANGED <<vm, n, i, size, out, prev, vm0, calls, streams>>
  /\ UNCHANGED aux

Next ==
  \/ \E k \in 0 .. MaxN : RunCall(k)
  \/ RunStep
  \/ RunReturn

Spec == Init /\ [][Next]_vars

\* the machine loaded with one of the operand programs
InitOps ==
  /\ \E p \in OpPrograms : \E rd \in Reads(p) : MainTo(Main(p, rd))
  /\ n = 0
  /\ i = 0
  /\ size = 0
  /\ out = NoFlags
  /\ prev = vm
  /\ vm0 = vm
  /\ calls = 0
  /\ streams = <<>>
  /\ NoAux

NextOps ==
  \/ RunCall(MaxN)
  \/ RunStep
  \/ RunReturn

SpecOps == InitOps /\ [][NextOps]_vars

----------------------------------------------------------------------------
(* The properties.  prev is the VM before the last iteration of the loop   *)
(* and vm the VM after it, in every state an iteration has led to.         *)

\* the last iteration completed: its handler returned no error
Stepped == status \in {"running", "nil"} /\ i > 0

\* an iteration has run since Run was called, however it ended
StepTaken == Stepped \/ status \in {"error", "exit", "panic"}

\* the 32-bit word the last iteration fetched, for a PC with 4 bytes left
FetchedWord ==
  LET b == Fetch(prev)
  IN  Shl(U(b[4]), 24) | Shl(U(b[3]), 16) | Shl(U(b[2]), 8) | U(b[1])
FetchedFour == StepTaken /\ FetchInRange(prev) /\ Len(Fetch(prev)) = 4

\* the instruction the last completed iteration executed, and what its
\* handler returned for the VM the loop passed to it
Executed == vm.LastInstr
Handled == Call([prev EXCEPT !.LastPC = prev.PC, !.LastInstr = vm.LastInstr], vm.LastInstr)

\* sign extension as the specification defines it: the bits above bit k
\* take the value of bit k
sx(v, k) == IF k \in v THEN v \cup (k .. 63) ELSE v \cap (0 .. k)

\* the register file after rd <- val, x0 staying 0
RegsWith(rd, val) == IF rd = 0 THEN prev.Reg ELSE [prev.Reg EXCEPT ![rd] = val]

\* C1: in every reachable state register 0 holds 0, whatever instructions
\* with rd = 0 have been executed.
C1_RegZeroIsZero == vm.Reg[Zero] = {}

\* a state after addi x0, x0, 5 has been executed
C1_Witness ==
  /\ Stepped
  /\ Executed.fn = "addi" /\ Executed.rd = 0 /\ Executed.imm = U(5)

\* C2: after every completed step the PC is the one the handler assigned
\* when it returned updatedPC, and otherwise the PC before the step plus the
\* size of the instruction, 2 for a compressed and 4 for a standard one.
C2_PCAfterStep ==
  Stepped =>
    /\ size = IF (U(prev.Mem[Val(prev.PC)]) & U(3)) # U(3) THEN 2 ELSE 4
    /\ vm.PC = IF out.updatedPC THEN Handled.vm.PC ELSE Add(prev.PC, U(size))

\* a state after a compressed jump has been executed
C2_Witness == Stepped /\ out.updatedPC /\ size = 2 /\ vm.PC # Add(prev.PC, U(2))

\* whether the executed handler wrote RDINSTRET: csrrw and csrrwi always
\* write the CSR, the set and clear forms when their source is not zero
WroteRDINSTRET ==
  /\ Executed.imm = U(RDINSTRET)
  /\ \/ Executed.fn \in {"csrrw", "csrrwi"}
     \/ Executed.fn \in {"csrrs", "csrrc", "csrrsi", "csrrci"} /\ Executed.rs1 # 0

\* C3: after every completed step RDINSTRET has grown by exactly 1, unless
\* the handler wrote RDINSTRET, and then it holds exactly the value written.
C3_RDINSTRETAfterStep ==
  Stepped =>
    vm.CSR[RDINSTRET] = IF WroteRDINSTRET THEN Handled.vm.CSR[RDINSTRET]
                        ELSE Add(prev.CSR[RDINSTRET], U(1))

\* a state after csrrw rd, RDINSTRET, rs1 with rd # 0: the counter holds
\* the written value plus one
C3_Diverges ==
  /\ Stepped
  /\ Executed.fn = "csrrw" /\ Executed.rd # 0 /\ Executed.imm = U(RDINSTRET)
  /\ vm.CSR[RDINSTRET] = Add(prev.Reg[Executed.rs1], U(1))

\* C4: a call Run(n) completes at most n steps; it returns nil only after n
\* steps and returns earlier only at a step that fails or exits; Steps grows
\* by the number of completed steps; Run(0) changes nothing; and once the
\* call has returned nothing more is fetched or executed.
C4_RunAtMostN ==
  /\ [](status \in {"running", "nil", "error", "exit"} =>
          /\ i <= n
          /\ vm.Steps = vm0.Steps + i
          /\ (status = "nil" => i = n)
          /\ (status \in {"error", "exit"} => i < n)
          /\ (status = "nil" /\ n = 0 => vm = vm0))
  /\ [][(status \in {"nil", "error", "exit"}) => (vm' = vm)]_vars

\* a call Run(3) that returned at its second step, by the exit signal
C4_Witness == status = "exit" /\ n = 3 /\ i = 1 /\ vm.Steps = vm0.Steps + 1

\* C5: when a step returns an error other than the exit signal, the
\* registers, the memory, the CSRs, PC and Steps are as before the step.
C5_ErrorKeepsState ==
  status = "error" =>
    /\ vm.Reg = prev.Reg
    /\ vm.Mem = prev.Mem
    /\ vm.CSR = prev.CSR
    /\ vm.PC = prev.PC
    /\ vm.Steps = prev.Steps

\* a state after ecall returned the error for a file descriptor it does not
\* know, with registers set
C5_Witness ==
  /\ status = "error"
  /\ vm.LastPC = vm.PC /\ Executed.fn = "ecallOrBreak"
  /\ vm.Reg[regNums["a7"]] = U(\h40) /\ vm.Reg[regNums["a0"]] = U(3)

\* C6: a decoded 32-bit JALR with rd # rs1 writes PC + 4 to rd and sets PC
\* to (Reg[rs1] + sx(imm, 11)) & ~1, which has bit 0 clear.
C6_JALR ==
  Stepped /\ size = 4 /\ Executed.fn = "jalr" /\ Executed.rd # Executed.rs1 =>
    /\ vm.Reg = RegsWith(Executed.rd, Add(prev.PC, U(4)))
    /\ vm.PC = AndNot(Add(prev.Reg[Executed.rs1], sx(Executed.imm, 11)), U(1))
    /\ 0 \notin vm.PC

\* a state after a JALR whose immediate has bit 11 set: the target is
\* Reg[rs1] plus the immediate taken as unsigned
C6_Diverges ==
  /\ Stepped /\ size = 4 /\ Executed.fn = "jalr" /\ Executed.rd # Executed.rs1
  /\ 11 \in Executed.imm
  /\ vm.PC = AndNot(Add(prev.Reg[Executed.rs1], Executed.imm), U(1))

\* C7: a decoded JAL writes PC + 4 to rd and sets PC to PC + sx(imm, 20).
C7_JAL ==
  Stepped /\ Executed.fn = "jal" =>
    /\ vm.Reg = RegsWith(Executed.rd, Add(prev.PC, U(4)))
    /\ vm.PC = Add(prev.PC, sx(Executed.imm, 20))

\* a state after a JAL by +0x80000: the PC has moved backward
C7_Diverges ==
  /\ Stepped /\ Executed.fn = "jal" /\ Executed.imm = U(\h80000)
  /\ vm.PC = Sub(prev.PC, U(\h80000))

\* C8: a SYSTEM instruction with funct3 = 0 is ECALL when bit 20 of the
\* encoding is 0 and EBREAK when it is 1; a step on EBREAK (0x00100073)
\* completes and changes nothing but PC, by 4, and RDINSTRET, by 1.
C8_EBREAK ==
  FetchedFour /\ FetchedWord = U(\h00100073) =>
    /\ Stepped
    /\ vm.Reg = prev.Reg
    /\ vm.Mem = prev.Mem
    /\ vm.CSR = [prev.CSR EXCEPT ![RDINSTRET] = Add(@, U(1))]
    /\ vm.PC = Add(prev.PC, U(4))

\* a state after a step on EBREAK with a7 = 0x5D: Run returned the exit
\* signal, as for ECALL
C8_Diverges ==
  /\ FetchedFour /\ FetchedWord = U(\h00100073)
  /\ status = "exit" /\ prev.Reg[regNums["a7"]] = U(\h5D)

\* the fields of a fetched I-type shift: the opcode and funct3 of key 0xA4
ShiftRightFetched ==
  /\ FetchedFour
  /\ (FetchedWord & U(\h7f)) = U(\h13)
  /\ (Shr(FetchedWord, 12) & U(\h7)) = U(5)
ShiftImm == Shr(FetchedWord, 20) & U(\hfff)
ShiftRs1 == Val(Shr(FetchedWord, 15) & U(\h1f))
ShiftRd == Val(Shr(FetchedWord, 7) & U(\h1f))

\* C9: for key 0xA4 the high 6 bits of the immediate select the operation:
\* 0x00 is SRLI, 0x10 is SRAI, both shifting Reg[rs1] by imm & 63, and any
\* other value is fatal: the step does not complete.
C9_ShiftRight ==
  ShiftRightFetched =>
    CASE Shr(ShiftImm, 6) = U(\h00) ->
           /\ Stepped
           /\ vm.Reg = RegsWith(ShiftRd, Shr(prev.Reg[ShiftRs1], Val(ShiftImm & U(63))))
      [] Shr(ShiftImm, 6) = U(\h10) ->
           /\ Stepped
           /\ vm.Reg = RegsWith(ShiftRd, Sar(prev.Reg[ShiftRs1], Val(ShiftImm & U(63))))
      [] OTHER -> ~Stepped

\* a state after a step on SRAI: the process has stopped in the handler
C9_Diverges ==
  /\ ShiftRightFetched /\ Shr(ShiftImm, 6) = U(\h10)
  /\ status = "panic" /\ Executed.fn = "shiftRight"

\* the encoding of SRAIW: opcode 0011011, funct3 101, funct7 0100000
SRAIWFetched ==
  /\ FetchedFour
  /\ (FetchedWord & U(\h7f)) = U(\h1b)
  /\ (Shr(FetchedWord, 12) & U(\h7)) = U(5)
  /\ (Shr(FetchedWord, 25) & U(\h7f)) = U(\h20)

\* C10: the encoding of SRAIW decodes to the handler of key 0x20A6, sraiw,
\* and the step shifts the low 32 bits of Reg[rs1] right arithmetically.
C10_SRAIW ==
  SRAIWFetched =>
    /\ Stepped
    /\ Executed.fn = rvi64Instructions[\h20A6]
    /\ vm.Reg = RegsWith(ShiftRd, Sar(I32(prev.Reg[ShiftRs1]), Val(ShiftImm & U(31))))

\* a state after a step on SRAIW: the handler of key 0x00A6, srliw, ran and
\* the result of -1 >> 1 is 0x7fffffff
C10_Diverges ==
  /\ SRAIWFetched /\ Stepped
  /\ Executed.fn = rvi64Instructions[\h00A6]
  /\ prev.Reg[ShiftRs1] = Bits /\ vm.Reg[ShiftRd] = Mask(31)

\* the operands of the executed register-register instruction
Rs1Val == prev.Reg[Executed.rs1]
Rs2Val == prev.Reg[Executed.rs2]

\* C11: SLTIU writes 1 to rd when Reg[rs1] is below sx(imm, 11), both taken
\* as unsigned 64-bit values, and 0 otherwise.
C11_SLTIU ==
  Stepped /\ Executed.fn = "sltiu" =>
    vm.Reg = RegsWith(Executed.rd,
               IF Ult(Rs1Val, sx(Executed.imm, 11)) THEN U(1) ELSE U(0))

\* a state after sltiu a0, a1, -1 with a1 = 0x80000000: rd holds 0, the
\* immediate having been compared as 0xFFF
C11_Diverges ==
  /\ Stepped /\ Executed.fn = "sltiu" /\ Executed.imm = U(\hfff)
  /\ Rs1Val = {31} /\ Executed.rd # 0 /\ vm.Reg[Executed.rd] = U(0)

\* the W-variant handlers
WOps ==
  {"addw", "subw", "sllw", "srlw", "sraw", "addiw", "slliw", "srliw", "sraiw",
   "mulw", "divw", "divuw", "remw", "remuw"}

\* bits 32..63 of r all equal bit 31 of r
SignExtended32(r) == (r \cap (32 .. 63)) = (IF 31 \in r THEN 32 .. 63 ELSE {})

\* C12: the value a W-variant operation writes to rd is a sign-extended
\* 32-bit value, for every pair of register values, divisor 0 included.
C12_WSignExtended ==
  Stepped /\ Executed.fn \in WOps /\ Executed.rd # 0 =>
    SignExtended32(vm.Reg[Executed.rd])

\* a state after remw with divisor 0 and dividend 2^32: rd holds 2^32
C12_Diverges ==
  /\ Stepped /\ Executed.fn = "remw" /\ Executed.rd # 0
  /\ Rs2Val = {} /\ Rs1Val = {32} /\ vm.Reg[Executed.rd] = {32}

\* the 32-bit division and remainder instructions that were fetched: the
\* handler the decoder selects for the R-type word, whether or not it
\* returned
DivRemFetched ==
  /\ FetchedFour
  /\ Decode(prev.PC, Fetch(prev)).err = "nil"
  /\ Decode(prev.PC, Fetch(prev)).instr.fn \in
       {"div", "divu", "divw", "divuw", "rem", "remu", "remw", "remuw"}
DivRemInstr == Decode(prev.PC, Fetch(prev)).instr

\* what the division rule of a zero divisor writes
ZeroDivisorResult(fn, x) ==
  CASE fn \in {"div", "divu", "divw", "divuw"} -> Bits
    [] fn \in {"rem", "remu"} -> x
    [] fn \in {"remw", "remuw"} -> I32(x)

\* the divisor an instruction divides by: the low 32 bits for a W variant
IsZeroDivisor(fn, y) ==
  IF fn \in {"divw", "divuw", "remw", "remuw"} THEN U32(y) = {} ELSE y = {}

\* C13: with a zero divisor DIV, DIVU, DIVW and DIVUW write all ones, REM
\* and REMU write Reg[rs1], and REMW and REMUW write the low 32 bits of
\* Reg[rs1] sign-extended; the divisor of a W variant is the low 32 bits of
\* Reg[rs2]; and the step completes.
C13_ZeroDivisor ==
  DivRemFetched /\ IsZeroDivisor(DivRemInstr.fn, prev.Reg[DivRemInstr.rs2]) =>
    /\ Stepped
    /\ vm.Reg = RegsWith(DivRemInstr.rd,
                  ZeroDivisorResult(DivRemInstr.fn, prev.Reg[DivRemInstr.rs1]))

\* a state after a step on remuw whose divisor is 2^32: the low 32 bits are
\* zero, and the process has stopped in the handler
C13_Diverges ==
  /\ DivRemFetched /\ DivRemInstr.fn = "remuw"
  /\ prev.Reg[DivRemInstr.rs2] = {32}
  /\ status = "panic"

\* 128-bit integers as sets of bit positions 0..127: the sum modulo 2^128,
\* added in 16-bit limbs from limb l up with the carry c
RECURSIVE AddLimbs(_, _, _, _)
AddLimbs(a, b, l, c) ==
  IF l = 8 THEN {}
  ELSE LET t == Field(a, 16 * l, 16) + Field(b, 16 * l, 16) + c
       IN  {16 * l + k : k \in {j \in 0 .. 15 : (t \div (2 ^ j)) % 2 = 1}}
             \cup AddLimbs(a, b, l + 1, t \div 65536)
Add128(a, b) == AddLimbs(a, b, 0, 0)

\* the sum of the a << k over the bits k of b in lo..hi, modulo 2^128
RECURSIVE Mul128Range(_, _, _, _)
Mul128Range(a, b, lo, hi) ==
  IF lo = hi THEN (IF lo \in b THEN {c + lo : c \in a} \cap (0 .. 127) ELSE {})
  ELSE LET mid == (lo + hi) \div 2
       IN  Add128(Mul128Range(a, b, lo, mid), Mul128Range(a, b, mid + 1, hi))
Mul128(a, b) == Mul128Range(a, b, 0, 127)

\* an int64 as a 128-bit two's-complement integer, and the high 64 bits of
\* a 128-bit integer
Sx128(a) == IF 63 \in a THEN a \cup (64 .. 127) ELSE a
High64(p) == {k - 64 : k \in {c \in p : c >= 64}}

\* C14: MULH writes the high 64 bits of the 128-bit product of the operands
\* as int64, and MULHSU the high 64 bits of the product of Reg[rs1] as int64
\* by Reg[rs2] as uint64.
C14_MULH ==
  /\ Stepped /\ Executed.fn = "mulh" =>
       vm.Reg = RegsWith(Executed.rd, High64(Mul128(Sx128(Rs1Val), Sx128(Rs2Val))))
  /\ Stepped /\ Executed.fn = "mulhsu" =>
       vm.Reg = RegsWith(Executed.rd, High64(Mul128(Sx128(Rs1Val), Rs2Val)))

\* a state after mulh of -1 by 1: rd holds 0, the high word of the product
\* -1 being all ones
C14_Diverges ==
  /\ Stepped /\ Executed.fn = "mulh" /\ Executed.rd # 0
  /\ Rs1Val = Bits /\ Rs2Val = U(1) /\ vm.Reg[Executed.rd] = {}

\* what Decode returns for the bytes the last iteration fetched
FetchedInstr == Decode(prev.PC, Fetch(prev))

\* C15: CSRRW writes Reg[rs1] to the addressed CSR and, when rd # 0, the old
\* value of the CSR to rd; whenever the CSR is RDINSTRET it returns the flag
\* updatedRDINSTRET, so that RDINSTRET then holds the value written.
C15_CSRRW ==
  Stepped /\ Executed.fn = "csrrw" =>
    /\ vm.Reg = RegsWith(Executed.rd, prev.CSR[Val(Executed.imm)])
    /\ out.updatedRDINSTRET = (Executed.imm = U(RDINSTRET))
    /\ vm.CSR[Val(Executed.imm)] = Rs1Val

\* a state after csrrw rd, RDINSTRET, rs1 with rd # 0: the flag is not set
C15_Diverges ==
  /\ Stepped /\ Executed.fn = "csrrw" /\ Executed.rd # 0
  /\ Executed.imm = U(RDINSTRET) /\ ~out.updatedRDINSTRET
  /\ vm.Reg[Executed.rd] = prev.CSR[RDINSTRET]

\* the CSR instruction the last iteration fetched, its CSR number, its source
\* operand (a register, or the 5-bit immediate sign-extended) and the value
\* it leaves in a CSR that held old
CSROps == {"csrrw", "csrrs", "csrrc", "csrrwi", "csrrsi", "csrrci"}
CSRFetched ==
  FetchedFour /\ FetchedInstr.err = "nil" /\ FetchedInstr.instr.fn \in CSROps
CSRInstr == FetchedInstr.instr
CSRNum == Field(CSRInstr.imm, 0, 12)
CSRSource ==
  IF CSRInstr.fn \in {"csrrw", "csrrs", "csrrc"} THEN prev.Reg[CSRInstr.rs1]
  ELSE sx(U(CSRInstr.rs1), 4)
CSRNew(old) ==
  CASE CSRInstr.fn \in {"csrrw", "csrrwi"} -> CSRSource
    [] CSRInstr.fn = "csrrs" -> IF CSRInstr.rs1 # 0 THEN old | CSRSource ELSE old
    [] CSRInstr.fn = "csrrc" -> IF CSRInstr.rs1 # 0 THEN AndNot(old, CSRSource) ELSE old
    [] CSRInstr.fn = "csrrsi" -> old | CSRSource
    [] CSRInstr.fn = "csrrci" -> AndNot(old, CSRSource)

\* C16: a CSR instruction on any CSR number 0..4095 completes; the CSR is
\* storage: rd receives the old value and the CSR the new one, and no other
\* CSR changes but the counter RDINSTRET, which the loop advances.
C16_CSRStorage ==
  CSRFetched =>
    /\ Stepped
    /\ CSRNum \in DOMAIN vm.CSR
    /\ vm.Reg = RegsWith(CSRInstr.rd, prev.CSR[CSRNum])
    /\ CSRNum # RDINSTRET =>
         vm.CSR = [prev.CSR EXCEPT ![CSRNum] = CSRNew(@),
                                   ![RDINSTRET] = Add(@, U(1))]

\* a state after a step on rdcycle (csrrs t1, 0xc00, x0): the process has
\* stopped in the handler
C16_Diverges ==
  /\ CSRFetched /\ CSRInstr.fn = "csrrs" /\ CSRNum = 3072
  /\ status = "panic"

\* the operation key of the fetched word: the funct7 bits (for an R-type
\* base opcode), funct3 << 5 and opcode[6:2]
FetchedBaseOpcode == Field(FetchedWord, 2, 5)
FetchedKey ==
  (IF FetchedBaseOpcode \in boRType THEN Field(FetchedWord, 25, 7) * 256 ELSE 0)
    + Field(FetchedWord, 12, 3) * 32 + FetchedBaseOpcode

\* a fetched 4-byte instruction of a format that goes through the table
KeyedFetched ==
  /\ FetchedFour
  /\ decodeSize(Fetch(prev)).ok /\ decodeSize(Fetch(prev)).size = 4
  /\ FetchedBaseOpcode \in boRType \cup boIType \cup boSType \cup boBType

\* C17: for a 4-byte input whose key has no entry in the operation table,
\* keys above the largest table key included, Decode returns an error and
\* no instruction, and the step ends with that error.
C17_UnmappedKey ==
  KeyedFetched /\ FetchedKey \notin DOMAIN rvi64Instructions =>
    /\ FetchedInstr.err = "error"
    /\ FetchedInstr.instr = NoInstr
    /\ status = "error"

\* a state after a step on an R-type word with funct7 = 0x20, funct3 = 7 and
\* opcode OP, key 0x20EC: the process has stopped in Decode
C17_Diverges ==
  /\ KeyedFetched /\ FetchedKey = 8192 + 7 * 32 + 12
  /\ FetchedInstr.err = "panic" /\ status = "panic"

\* the halfword of a fetched compressed instruction
RVCFetched ==
  /\ StepTaken /\ FetchInRange(prev) /\ Len(Fetch(prev)) \in {2, 4}
  /\ decodeSize(Fetch(prev)).ok /\ decodeSize(Fetch(prev)).size = 2
FetchedHalf == Shl(U(Fetch(prev)[2]), 8) | U(Fetch(prev)[1])

\* the primary selector of a halfword, bits 15..13 and 1..0, and the
\* selector of its op-op form, bits 12..10 and 6..5
RVCSelector(h) == Field(h, 13, 3) * 4 + Field(h, 0, 2)
RVCOpOp(h) == Field(h, 10, 3) * 4 + Field(h, 5, 2)

\* the all-zero halfword, the reserved selector 0x10, the reserved op-op
\* forms, and C.FLD, C.FSD, C.FLDSP, C.FSDSP
RVCUnsupported(h) ==
  \/ h = {}
  \/ RVCSelector(h) \in {16, 4, 20, 6, 22}
  \/ RVCSelector(h) = 17 /\ RVCOpOp(h) \in {30, 31}

\* C18: for the all-zero halfword and for every reserved or unsupported
\* compressed encoding rvcDecode returns an error, and Run ends the step
\* with an error.
C18_RVCUnsupported ==
  RVCFetched /\ RVCUnsupported(FetchedHalf) =>
    /\ rvcDecode(FetchedHalf).err = "error"
    /\ status = "error"

\* a state after a step on the reserved halfword 0x8000: the process has
\* stopped in rvcDecode
C18_Diverges ==
  /\ RVCFetched /\ FetchedHalf = {15}
  /\ rvcDecode(FetchedHalf).err = "panic" /\ status = "panic"

\* the loop is about to fetch the word of ECALL, 0x00000073
ECALLNext ==
  /\ status = "running" /\ LoopCond(i, n)
  /\ FetchInRange(vm) /\ Len(Fetch(vm)) = 4
  /\ Fetch(vm) = <<\h73, 0, 0, 0>>

\* the arguments of the call, and whether buf .. buf + n lies in memory
SysCall == vm.Reg[regNums["a7"]]
SysFd == vm.Reg[regNums["a0"]]
SysBuf == vm.Reg[regNums["a1"]]
SysN == vm.Reg[regNums["a2"]]
SysInMem == Fits(SysBuf) /\ Fits(SysN) /\ Val(SysBuf) + Val(SysN) <= MemLen(vm.Mem)

\* C19: ECALL dispatches on Reg[a7]: 0x5D makes the step return the exit
\* signal; 0x40 with Reg[a0] 1 or 2 emits the Reg[a2] bytes of memory from
\* Reg[a1] to that stream and writes their number to Reg[a0]; 0x40 with
\* another Reg[a0], and every other Reg[a7], returns a non-exit error.
C19_ECALL ==
  [][ECALLNext =>
       CASE SysCall = U(\h5D) ->
              status' = "exit" /\ streams' = streams
         [] SysCall = U(\h40) /\ SysFd \in {U(1), U(2)} ->
              SysInMem =>
                /\ status' = "running"
                /\ streams' = Append(streams,
                     <<Val(SysFd), [k \in 1 .. Val(SysN) |-> vm.Mem[Val(SysBuf) + k - 1]]>>)
                /\ vm'.Reg = [vm.Reg EXCEPT ![regNums["a0"]] = SysN]
         [] OTHER ->
              status' = "error" /\ streams' = streams]_vars

\* a state after ecall wrote the 3 bytes from address 2 to stderr
C19_Witness ==
  /\ FetchedFour /\ FetchedWord = U(\h73) /\ Stepped
  /\ prev.Reg[regNums["a7"]] = U(\h40) /\ prev.Reg[regNums["a0"]] = U(2)
  /\ streams = << <<2, <<prev.Mem[2], prev.Mem[3], prev.Mem[4]>> >> >>
  /\ vm.Reg[regNums["a0"]] = U(3)

\* the number of bytes a load or a store moves
Width(fn) ==
  CASE fn \in {"sb", "lb", "lbu"} -> 1
    [] fn \in {"sh", "lh", "lhu"} -> 2
    [] fn \in {"sw", "lw", "lwu"} -> 4
    [] fn \in {"sd", "ld"} -> 8

\* the (store, load) pairs of the round trip
StoreLoadPairs ==
  { <<"sb", "lb">>, <<"sb", "lbu">>, <<"sh", "lh">>, <<"sh", "lhu">>,
    <<"sw", "lw">>, <<"sw", "lwu">>, <<"sd", "ld">> }

\* the address a load or a store in works on, in the machine m
EffectiveAddr(m, in) == Add(m.Reg[in.rs1], sx(in.imm, 11))

\* the low nb bytes of v as a load returns them: sign-extended from the top
\* bit for lb, lh and lw, zero-extended for the others
Loaded(fn, v) ==
  IF fn \in {"lb", "lh", "lw"}
  THEN sx(v & Mask(8 * Width(fn)), 8 * Width(fn) - 1)
  ELSE v & Mask(8 * Width(fn))

\* the last iteration executed a load, and the iteration before it the
\* store of the pair, at the same address
RoundTrip ==
  /\ Stepped
  /\ <<prev.LastInstr.fn, Executed.fn>> \in StoreLoadPairs
  /\ EffectiveAddr(prev, prev.LastInstr) = EffectiveAddr(prev, Executed)

\* C20: a store writes the low N bytes of Reg[rs2] at a .. a+N-1, the least
\* significant first, and no other byte of memory; the load of the same
\* width at a that follows it returns those bytes, sign-extended for LB, LH
\* and LW and zero-extended for LBU, LHU and LWU, LD returning the value.
C20_StoreLoad ==
  /\ Stepped /\ Executed.fn \in {"sb", "sh", "sw", "sd"} =>
       LET a == Val(EffectiveAddr(prev, Executed))
       IN  vm.Mem = [k \in DOMAIN prev.Mem |->
                       IF k >= a /\ k < a + Width(Executed.fn)
                       THEN Field(Rs2Val, 8 * (k - a), 8) ELSE prev.Mem[k]]
  /\ RoundTrip =>
       vm.Reg = RegsWith(Executed.rd, Loaded(Executed.fn, prev.Reg[prev.LastInstr.rs2]))

\* a state after sh and lh of 0x0123456789ABCDEF at the odd address 43: the
\* register holds 0xFFFFFFFFFFFFCDEF and memory the bytes 0xEF, 0xCD
C20_Witness ==
  /\ RoundTrip /\ Executed.fn = "lh" /\ Val(EffectiveAddr(prev, Executed)) = 43
  /\ prev.Reg[prev.LastInstr.rs2] = W64(\h0123, \h4567, \h89AB, \hCDEF)
  /\ vm.Reg[Executed.rd] = U(\hCDEF) \cup (16 .. 63)
  /\ vm.Mem[43] = \hEF /\ vm.Mem[44] = \hCD

----------------------------------------------------------------------------
(* Instruction lengths: the machine is loaded with every first byte        *)

\* the second bytes tried with each first byte: the length field nnn of the
\* long encodings 0, 1, 6 and the reserved 7
SecondBytes == { \h00, \h10, \h60, \h70, \hff }

\* the machine loaded with the four bytes b0, b1, 0, 0
InitBytes ==
  /\ \E b0 \in 0 .. 255, b1 \in SecondBytes :
       \E rd \in Reads(<<b0, b1, 0, 0>>) : MainTo(Main(<<b0, b1, 0, 0>>, rd))
  /\ n = 0
  /\ i = 0
  /\ size = 0
  /\ out = NoFlags
  /\ prev = vm
  /\ vm0 = vm
  /\ calls = 0
  /\ streams = <<>>
  /\ NoAux

SpecBytes == InitBytes /\ [][NextOps]_vars

\* the first byte the last iteration fetched
FirstByte == Fetch(prev)[1]

\* C21: the length decoder returns 2 for a first byte whose low two bits are
\* not 11 and 4 for one whose low two bits are 11 and whose bits 4:2 are not
\* 111; an instruction whose first byte has its low five bits all ones is
\* rejected by Decode with an error and is never executed: Run returns the
\* error and the VM is as it was.
C21_Lengths ==
  FetchedFour =>
    /\ FirstByte % 4 # 3 => decodeSize(Fetch(prev)) = [size |-> 2, ok |-> TRUE]
    /\ FirstByte % 4 = 3 /\ FirstByte % 32 # 31 =>
         decodeSize(Fetch(prev)) = [size |-> 4, ok |-> TRUE]
    /\ FirstByte % 32 = 31 =>
         /\ FetchedInstr.err = "error"
         /\ FetchedInstr.instr = NoInstr
         /\ status = "error"
         /\ vm = prev

\* the 80-bit-or-longer encoding with the reserved length field was fetched
\* and rejected
C21_Witness ==
  /\ FetchedFour
  /\ FirstByte = \hff
  /\ Fetch(prev)[2] = \h70
  /\ status = "error"

----------------------------------------------------------------------------
(* Direct calls: a test case builds a VM and an Instruction and calls the  *)
(* handler on them; signExtend is called on its two arguments.             *)

\* test.setup: rd is 0xA, rs1 is 0xB and holds a; rs2 is 0xC and holds b
\* when b is not 0, and is 0 otherwise
setup(t) ==
  [vm |-> [Reg |-> [r \in 0 .. RegLen - 1 |->
                      IF r = 11 THEN t.a ELSE IF r = 12 THEN t.b ELSE {}],
           CSR |-> [c \in 0 .. CSRLen - 1 |-> {}],
           PC |-> t.pc,
           Steps |-> 0,
           Mem |-> t.mem,
           LastInstr |-> NoInstr,
           LastPC |-> {}],
   in |-> Instr(t.fn, 10, 11, IF t.b # {} THEN 12 ELSE 0, t.imm)]

\* the handlers that shift by a register and those that shift by an immediate
RegShifts == {"sll", "srl", "sra", "sllw", "srlw", "sraw"}
ImmShifts == {"slli", "srli", "srai", "slliw", "srliw", "sraiw"}

\* shift amounts: 0, 1, 30, 31, 32, 62, 63, 64, the 0xfff, 0xffe and 0xfde
\* of TestShifts, 2^32 + 5, 2^63 and all ones
Amounts ==
  { {}, U(1), U(30), U(31), U(32), U(62), U(63), U(64), U(\hfff), U(\hffe),
    U(\hfde), {32, 2, 0}, {63}, Bits }

\* test cases in the form of TestShifts
ShiftTests ==
  {[fn |-> f, a |-> x, b |-> y, imm |-> {}, pc |-> {}, mem |-> <<>>] :
     f \in RegShifts, x \in Samples, y \in Amounts}
  \cup {[fn |-> f, a |-> x, b |-> {}, imm |-> y, pc |-> {}, mem |-> <<>>] :
     f \in ImmShifts, x \in Samples, y \in Amounts}

\* arguments of signExtend: every bit number of a uint64
SignArgs ==
  {[fn |-> "signExtend", v |-> x, bit |-> k] :
     x \in Samples \cup {U(\h80), U(\h100), U(\h7f)}, k \in 0 .. 63}

InitCalls ==
  /\ tt \in ShiftTests \cup SignArgs
  /\ vm = IF tt.fn = "signExtend" THEN NewVM(U(0), 0) ELSE setup(tt).vm
  /\ status = "idle"
  /\ n = 0
  /\ i = 0
  /\ size = 0
  /\ out = NoFlags
  /\ prev = vm
  /\ vm0 = vm
  /\ calls = 0
  /\ streams = <<>>
  /\ got = <<>>
  /\ spike = <<>>
  /\ fds = {}
  /\ diff = <<>>

\* the assignments of a test, r being what tt.fn(vm, in) returned
TestRunTo(r) ==
  /\ vm' = r.vm
  /\ status' = r.err
  /\ out' = r.flags
  /\ got' = r.vm.Reg[10]

\* the body of a test: f, err := tt.fn(vm, in), and got := vm.Reg[0xA]
TestRun ==
  /\ status = "idle"
  /\ tt.fn # "signExtend"
  /\ TestRunTo(Call(vm, setup(tt).in))
  /\ prev' = vm
  /\ UNCHANGED <<n, i, size, vm0, calls, streams, tt, spike, fds, diff>>

\* a call of signExtend(v, bit)
SignExtendCall ==
  /\ status = "idle"
  /\ tt.fn = "signExtend"
  /\ IF signExtendPanics(tt.bit)
     THEN status' = "panic" /\ got' = <<>>
     ELSE status' = "nil" /\ got' = signExtend(tt.v, tt.bit)
  /\ UNCHANGED <<vm, n, i, size, out, prev, vm0, calls, streams, tt, spike,
                 fds, diff>>

NextCalls ==
  \/ TestRun
  \/ SignExtendCall

SpecCalls == InitCalls /\ [][NextCalls]_vars

\* a test case has been run, whatever came of it
Tested == status # "idle" /\ tt.fn # "signExtend"

\* v shifted left and right by k as the ISA defines it, on 64 bits
RefShl(v, k) == {b + k : b \in v} \cap Bits
RefShr(v, k) == {b - k : b \in v} \cap Bits
RefSar(v, k) == RefShr(v, k) \cup (IF 63 \in v THEN (63 - k) .. 63 ELSE {})

\* the same on the low 32 bits, the result sign-extended from bit 31
RefShlw(v, k) == sx(RefShl(v, k) \cap (0 .. 31), 31)
RefShrw(v, k) == sx(RefShr(v \cap (0 .. 31), k), 31)
RefSarw(v, k) ==
  sx(RefShr(v \cap (0 .. 31), k) \cup (IF 31 \in v THEN (31 - k) .. 31 ELSE {}), 31)

\* the shift amount of a test case: Reg[rs2] or the immediate
Amount(t) == IF t.fn \in RegShifts THEN t.b ELSE t.imm

\* what the ISA gives for a shift that uses k as its amount
RefShift(fn, v, k) ==
  CASE fn \in {"sll", "slli"} -> RefShl(v, k)
    [] fn \in {"srl", "srli"} -> RefShr(v, k)
    [] fn \in {"sra", "srai"} -> RefSar(v, k)
    [] fn \in {"sllw", "slliw"} -> RefShlw(v, k)
    [] fn \in {"srlw", "srliw"} -> RefShrw(v, k)
    [] fn \in {"sraw", "sraiw"} -> RefSarw(v, k)

\* C22: every shift handler uses only the low bits of its amount: SLL, SRL,
\* SRA, SLLI, SRLI and SRAI shift by amount & 63, and SLLW, SRLW, SRAW,
\* SLLIW, SRLIW and SRAIW by amount & 31, the amount being Reg[rs2] or the
\* immediate; the higher bits of the amount do not change the result, and
\* the handler returns no flags and no error.
C22_ShiftAmount ==
  Tested /\ tt.fn \in RegShifts \cup ImmShifts =>
    /\ status = "nil"
    /\ out = NoFlags
    /\ got = RefShift(tt.fn, tt.a,
                      Field(Amount(tt), 0,
                            IF tt.fn \in {"sll", "srl", "sra", "slli", "srli", "srai"}
                            THEN 6 ELSE 5))

\* sraiw was called on 2^30 with the immediate 0xffe, and srl on 2^63 with
\* Reg[rs2] = 0xfff: both wrote 1
C22_Witness ==
  /\ Tested
  /\ got = U(1)
  /\ \/ tt.fn = "sraiw" /\ tt.a = {30} /\ tt.imm = U(\hffe)
     \/ tt.fn = "srl" /\ tt.a = {63} /\ tt.b = U(\hfff)

\* C25: signExtend(v, n) returns v with every bit above n set to the value
\* of bit n, for every uint64 v and every n in 0 .. 63; signExtend(v, 63)
\* returns v.
C25_SignExtend ==
  status # "idle" /\ tt.fn = "signExtend" =>
    /\ status = "nil"
    /\ got = sx(tt.v, tt.bit)

\* signExtend(v, 63) does not return: signBits has no entry 63
C25_Diverges ==
  /\ tt.fn = "signExtend"
  /\ tt.bit = 63
  /\ status = "panic"

\* the operands of an overflowing signed division: the most negative
\* dividend and the divisor -1, on 64 bits and on the low 32 bits
Overflows64(x, y) == x = {63} /\ y = Bits
Overflows32(x, y) == U32(x) = {31} /\ U32(y) = 0 .. 31

\* what the claim has an overflowing division write
OverflowResult(fn) ==
  CASE fn = "div" -> {63}
    [] fn = "divw" -> 31 .. 63
    [] fn \in {"rem", "remw"} -> {}

\* the last iteration fetched a signed division whose operands overflow
OverflowFetched ==
  /\ DivRemFetched
  /\ \/ /\ DivRemInstr.fn \in {"div", "rem"}
        /\ Overflows64(prev.Reg[DivRemInstr.rs1], prev.Reg[DivRemInstr.rs2])
     \/ /\ DivRemInstr.fn \in {"divw", "remw"}
        /\ Overflows32(prev.Reg[DivRemInstr.rs1], prev.Reg[DivRemInstr.rs2])

\* C23: on signed overflow the step completes normally: DIV of
\* 0x8000000000000000 by 0xFFFFFFFFFFFFFFFF writes 0x8000000000000000 and REM
\* writes 0; DIVW of operands whose low 32 bits are 0x80000000 and
\* 0xFFFFFFFF writes 0xFFFFFFFF80000000 and REMW writes 0.
C23_Overflow ==
  OverflowFetched =>
    /\ Stepped
    /\ Executed = DivRemInstr
    /\ vm.Reg = RegsWith(DivRemInstr.rd, OverflowResult(DivRemInstr.fn))
    /\ vm.PC = Add(prev.PC, U(4))

\* divw ran on 0x80000000 and 0x00000000FFFFFFFF and wrote
\* 0xFFFFFFFF80000000
C23_Witness ==
  /\ OverflowFetched
  /\ Stepped
  /\ Executed.fn = "divw"
  /\ prev.Reg[a1] = {31}
  /\ prev.Reg[a2] = 0 .. 31
  /\ vm.Reg[a0] = 31 .. 63

----------------------------------------------------------------------------
(* NewVM with Argv or Env: the initial stack.  A string is the sequence of *)
(* its bytes; a []string is nil or holds its elements in order.            *)

\* the strings "rv", "", "-n" and "A=1", "B"
ArgvChoices ==
  { NilSlice, Slice(<<>>), Slice(<< <<114, 118>> >>),
    Slice(<< <<114, 118>>, <<>>, <<45, 110>> >>) }
EnvChoices ==
  { NilSlice, Slice(<<>>), Slice(<< <<>> >>), Slice(<< <<65, 61, 49>>, <<66>> >>) }

\* sizes of the program's memory: aligned to 8 bytes and not
MemSizes == {12, 13, 16, 23}

\* programs of four instructions; the second loads argc and argv[0]
ArgPrograms ==
  { Cat4(NOP, NOP, NOP, NOP), Cat4(LD(a0, SP, 0), LD(a1, SP, 8), NOP, NOP) }

\* before NewVM is called: tt is the Prog
InitArgs ==
  /\ tt \in [Argv : ArgvChoices, Env : EnvChoices, Start : {U(0)}, MemSize : MemSizes]
  /\ vm = NewVM(U(0), 0)
  /\ status = "start"
  /\ n = 0
  /\ i = 0
  /\ size = 0
  /\ out = NoFlags
  /\ prev = vm
  /\ vm0 = vm
  /\ calls = 0
  /\ streams = <<>>
  /\ got = <<>>
  /\ spike = <<>>
  /\ fds = {}
  /\ diff = <<>>

\* vm := NewVM(&Prog{...})
NewVMCall ==
  /\ status = "start"
  /\ vm' = NewVMProg(tt)
  /\ status' = "new"
  /\ prev' = vm'
  /\ vm0' = vm'
  /\ UNCHANGED <<n, i, size, out, calls, streams, tt, got, spike, fds, diff>>

\* the VM and the status after loading, l being the result of it
LoadSectionsTo(l) ==
  /\ vm' = l.vm
  /\ status' = LoadStatus(l)

\* the sections of the program file are read into vm.Mem
LoadSections ==
  /\ status = "new"
  /\ \E p \in ArgPrograms : \E rd \in Reads(p) : LoadSectionsTo(Load(vm, 0, p, rd))
  /\ prev' = vm'
  /\ vm0' = vm'
  /\ UNCHANGED <<n, i, size, out, calls, streams, tt, got, spike, fds, diff>>

NextArgs ==
  \/ NewVMCall
  \/ LoadSections
  \/ RunCall(MaxN)
  \/ RunStep
  \/ RunReturn

SpecArgs == InitArgs /\ [][NextArgs]_vars

\* the uint64 stored at a, the least significant byte first, and whether a
\* NUL-terminated copy of s lies at a
Word64At(a) ==
  UNION {Shl(U(vm.Mem[a + k]), 8 * k) : k \in 0 .. 7}
CStringAt(a, s) ==
  /\ a + Len(s) < MemLen(vm.Mem)
  /\ \A j \in 1 .. Len(s) : vm.Mem[a + j - 1] = s[j]
  /\ vm.Mem[a + Len(s)] = 0

\* NewVM has returned a VM for a Prog whose Argv or Env is not nil
StackBuilt == status = "new" /\ ~(tt.Argv.isNil /\ tt.Env.isNil)

\* the table at sp holds, from its word k on, the addresses of copies of
\* the strings of ss, all at or above the address top, and then a zero word
TableAt(sp, k, ss, top) ==
  /\ \A j \in 1 .. Len(ss) :
       /\ Fits(Word64At(sp + 8 * (k + j - 1)))
       /\ Val(Word64At(sp + 8 * (k + j - 1))) >= top
       /\ CStringAt(Val(Word64At(sp + 8 * (k + j - 1))), ss[j])
  /\ Word64At(sp + 8 * (k + Len(ss))) = {}

\* C24: after NewVM with a non-nil Argv or Env, Reg[SP] is a multiple of 8
\* and points at the little-endian argc = len(Argv); the next len(Argv)
\* words are the addresses of NUL-terminated copies of Argv[0], Argv[1], ..
\* in order, then a zero word, then len(Env) addresses of copies of Env[0],
\* Env[1], .. in order, then a zero word; the table and the strings lie
\* inside Mem, the strings above the table.
C24_InitialStack ==
  StackBuilt =>
    LET sp == Val(vm.Reg[SP])
        na == Len(tt.Argv.elems)
        ne == Len(tt.Env.elems)
    IN  /\ Fits(vm.Reg[SP])
        /\ sp % 8 = 0
        /\ sp + 8 * (na + ne + 3) <= MemLen(vm.Mem)
        /\ Word64At(sp) = U(na)
        /\ TableAt(sp, 1, tt.Argv.elems, sp + 8 * (na + ne + 3))
        /\ TableAt(sp, na + 2, tt.Env.elems, sp + 8 * (na + ne + 3))

\* NewVM has built the stack of "rv", "", "-n" with the environment "A=1",
\* "B" on 13 bytes of memory: SP is 8 and argc is 3
C24_Witness ==
  /\ StackBuilt
  /\ tt.MemSize = 13
  /\ Len(tt.Argv.elems) = 3
  /\ Len(tt.Env.elems) = 2
  /\ vm.Reg[SP] = U(8)
  /\ vm.Mem[8] = 3

----------------------------------------------------------------------------
(* diff.go: the VM runs against the Spike simulator, which the process     *)
(* drives through a PTY.  Spike is another program: what its Run leaves in *)
(* Reg and PC, and which system call fails, are choices of the model.      *)

\* the -max_steps flag
MaxSteps == 2

\* the calls of newPTY that can fail, and "none" for a call that succeeds
PTYFailures == {"posix_openpt", "grantpt", "unlockpt", "open", "tcgetattr", "tcsetattr"}

\* newPTY() when the call named by fail fails: the files pts and ptm it
\* returns, its error, and the descriptors left open in the process
newPTY(fail) ==
  CASE fail = "posix_openpt" ->
         [pts |-> "nil", ptm |-> "nil", err |-> "error", open |-> {}]
    [] fail \in {"grantpt", "unlockpt", "open"} ->
         [pts |-> "nil", ptm |-> "nil", err |-> "error", open |-> {"master"}]
    [] fail \in {"tcgetattr", "tcsetattr"} ->
         [pts |-> "nil", ptm |-> "nil", err |-> "error", open |-> {"master", "slave"}]
    [] OTHER ->
         [pts |-> "slave", ptm |-> "master", err |-> "nil", open |-> {"master", "slave"}]

\* the steps of NewSpike after newPTY that can fail
SpikeFailures == {"Start", "pts.Close", "readUntilLn", "runCmd"}

\* no Spike, and the Spike NewSpike returns: its registers are read from the
\* simulator after every instruction, and at _start they hold what the
\* simulator shows, sp in SP
NoSpike == [Reg |-> [r \in 0 .. RegLen - 1 |-> {}], PC |-> {}, Steps |-> 0, ptm |-> "nil"]

\* NewSpike(cmd) when the call named by fail fails: ptm, pts, err := newPTY()
\* takes the first file newPTY returns as ptm; pts is closed once the child
\* has started, and ptm is kept in the Spike
NewSpike(start, sp, fail) ==
  LET r == newPTY(fail)
      ptm == r.pts
      pts == r.ptm
  IN  CASE r.err # "nil" -> [s |-> NoSpike, err |-> "error", open |-> r.open]
        [] fail = "Start" -> [s |-> NoSpike, err |-> "error", open |-> r.open]
        [] fail \in {"pts.Close", "readUntilLn", "runCmd"} ->
             [s |-> NoSpike, err |-> "error", open |-> r.open \ {pts}]
        [] OTHER ->
             [s |-> [NoSpike EXCEPT !.PC = start, !.Reg[SP] = sp, !.ptm = ptm],
              err |-> "nil", open |-> r.open \ {pts}]

\* s.Close() when the call named by fail fails: the descriptors left open
Close(s, open, fail) ==
  IF fail = "Wait" THEN open ELSE open \ {s.ptm}

\* diffRegs(a, b): the registers that differ
diffRegsNone(a, b) == {}
diffRegs(a, b) == {r \in DOMAIN a : b[r] # a[r]}

\* s.Stack() when s.Memory gives the doublewords ws from SP up and then an
\* invalid address: sp is s.Reg[SP] and stack the bytes of ws, the least
\* significant first
SpikeStack(s, ws) ==
  [sp |-> s.Reg[SP],
   stack |-> [k \in 1 .. 8 * Len(ws) |->
                Field(ws[(k - 1) \div 8 + 1], 8 * ((k - 1) % 8), 8)]]

\* the SP Spike shows at _start and the doublewords of its stack
SpikeSP == U(MemSize)
SpikeWords == << {} >>

\* the ways a call of spike.Run(1) goes: Spike shows the registers and the
\* PC the VM will have ("agree"), or a register or the PC differs ("reg",
\* "pc"); the command cannot be sent and nothing is read ("unchanged"), or
\* the PC is read and the registers cannot be ("noreg").  The errors of
\* spike.Run(1) for each: runCmd returns an error before the registers are
\* read; after they are read it returns nil, exitErr or the error of a trap
SpikeErrs(kind) ==
  IF kind \in {"unchanged", "noreg"} THEN {"error"} ELSE {"nil", "exit", "error"}

\* the Spike after spike.Run(1), pc and reg being the PC of the instruction
\* the VM is about to run and the registers the VM will have after it
SpikeShows(s, pc, reg, kind, serr) ==
  [s EXCEPT !.Reg = CASE kind = "reg" -> [reg EXCEPT ![t0] = Xor(@, U(1))]
                      [] kind \in {"unchanged", "noreg"} -> @
                      [] OTHER -> reg,
            !.PC = CASE kind = "pc" -> Add(pc, U(2))
                     [] kind = "unchanged" -> @
                     [] OTHER -> pc,
            !.Steps = IF serr = "nil" THEN @ + 1 ELSE @]
SpikeAfter(s, m, kind, serr) == SpikeShows(s, m.PC, Step(m).vm.Reg, kind, serr)

\* the body of the loop after the two calls of Run: what it does for the
\* errors serr and vmerr, the Spike s and the VM m
diffLoopBody(serr, vmerr, s, m) ==
  CASE serr = "exit" \/ vmerr = "exit" ->
         IF serr # vmerr THEN "VM and Spike didn't exit at the same time" ELSE "break"
    [] serr # "exit" /\ vmerr # "exit" /\ serr # "nil" -> "can't execute spike instruction"
    [] serr = "nil" /\ vmerr \notin {"exit", "nil"} -> "can't execute vm instruction"
    [] OTHER ->
         IF diffRegs(s.Reg, m.Reg) # {} \/ s.PC # m.LastPC THEN "FOUND DIFF"
         ELSE "continue"

\* copy(vm.Mem[a:], src): as many bytes of src as fit
copy(m, a, src) ==
  [m EXCEPT !.Mem = [k \in DOMAIN m.Mem |->
     IF k >= a /\ k < a + Len(src) THEN src[k - a + 1] ELSE m.Mem[k]]]

\* the Prog of diffWithSpike for the command line of MainProg, st being
\* what spike.Stack() returned: MemSize is sp + uint64(len(stack))
DiffProg(st) == MainProg(Val(st.sp) + Len(st.stack))

\* vm.Reg[SP] = sp; copy(vm.Mem[sp:], stack)
DiffStack(m, st) == copy([m EXCEPT !.Reg[SP] = st.sp], Val(st.sp), st.stack)

\* diffWithSpike has opened the program file; the VM is not built yet
InitDiff ==
  /\ \E p \in 1 .. Len(Programs) : tt = Programs[p]
  /\ vm = NewVM(U(0), 0)
  /\ status = "idle"
  /\ n = 0
  /\ i = 0
  /\ size = 0
  /\ out = NoFlags
  /\ prev = vm
  /\ vm0 = vm
  /\ calls = 0
  /\ streams = <<>>
  /\ got = <<>>
  /\ spike = NoSpike
  /\ fds = {}
  /\ diff = [at |-> "NewSpike", i |-> 0, serr |-> "nil", sruns |-> 0,
             ret |-> "none", printed |-> "none"]

\* spike, err := NewSpike(...): on an error diffWithSpike returns it
DiffNewSpike ==
  /\ diff.at = "NewSpike"
  /\ \E fail \in PTYFailures \cup SpikeFailures \cup {"none"} :
       LET r == NewSpike(U(0), SpikeSP, fail)
       IN  /\ spike' = r.s
           /\ fds' = r.open
           /\ diff' = IF r.err # "nil"
                      THEN [diff EXCEPT !.at = "returned",
                                        !.ret = "can't create spike instance"]
                      ELSE [diff EXCEPT !.at = "Setup"]
  /\ UNCHANGED <<vm, status, n, i, size, out, prev, vm0, calls, streams, tt, got>>

\* the VM is built and the section read, l being the result of the read: a
\* panic unwinds through the deferred spike.Close(), an error of ReadAt is
\* returned as "Can't load section", and otherwise the stack of Spike is
\* copied in and the loop begins
DiffSetupTo(l, st) ==
  /\ vm' = IF l.err = "nil" THEN DiffStack(l.vm, st) ELSE l.vm
  /\ diff' = CASE l.err = "panic" -> [diff EXCEPT !.at = "Close", !.ret = "panic"]
                [] l.err = "error" ->
                     [diff EXCEPT !.at = "Close", !.ret = "Can't load section"]
                [] OTHER -> [diff EXCEPT !.at = "spike.Run"]

\* spike.Stack(), NewVM, the sections, and the stack of Spike copied in
DiffSetup ==
  /\ diff.at = "Setup"
  /\ \/ /\ diff' = [diff EXCEPT !.at = "Close",
                                !.ret = "can't read stack from the Spike simulator"]
        /\ UNCHANGED <<vm, prev, vm0>>
     \/ /\ \E rd \in Reads(tt) :
             DiffSetupTo(Load(NewVMProg(DiffProg(SpikeStack(spike, SpikeWords))),
                              0, tt, rd),
                         SpikeStack(spike, SpikeWords))
        /\ prev' = vm'
        /\ vm0' = vm'
  /\ UNCHANGED <<status, n, i, size, out, calls, streams, tt, got, spike, fds>>

\* serr := spike.Run(1), in an iteration of the loop
DiffSpikeRun ==
  /\ diff.at = "spike.Run"
  /\ diff.i < MaxSteps
  /\ \E kind \in {"agree", "reg", "pc", "unchanged", "noreg"} :
       \E serr \in SpikeErrs(kind) :
       /\ spike' = SpikeAfter(spike, vm, kind, serr)
       /\ diff' = [diff EXCEPT !.at = "vm.Run", !.serr = serr, !.sruns = @ + 1]
  /\ UNCHANGED <<vm, status, n, i, size, out, prev, vm0, calls, streams, tt, got, fds>>

\* where diffWithSpike goes after the iteration, vmerr being what vm.Run(1)
\* returned and todo what the body of the loop decided; a panic of vm.Run(1)
\* unwinds through the deferred spike.Close()
DiffAfter(vmerr, todo) ==
  CASE vmerr = "panic" -> [diff EXCEPT !.at = "Close", !.ret = "panic"]
    [] vmerr # "panic" /\ todo = "continue" ->
         [diff EXCEPT !.at = "spike.Run", !.i = @ + 1]
    [] vmerr # "panic" /\ todo = "break" ->
         [diff EXCEPT !.at = "Close", !.ret = "nil", !.printed = "EXITTED"]
    [] vmerr # "panic" /\ todo = "FOUND DIFF" ->
         [diff EXCEPT !.at = "Close", !.ret = "nil", !.printed = todo]
    [] OTHER -> [diff EXCEPT !.at = "Close", !.ret = todo]

\* what vm.Run(1) returns when the body of its loop leaves the status st
RunOneErr(st) == IF st = "running" THEN "nil" ELSE st

\* the assignments of vm.Run(1), s being what the body of its loop leaves
DiffVMRunTo(s) ==
  /\ vm' = s.vm
  /\ status' = RunOneErr(s.status)
  /\ i' = IF s.status = "running" THEN 1 ELSE 0
  /\ size' = s.size
  /\ out' = s.flags
  /\ streams' = IF s.wr = <<>> THEN streams ELSE Append(streams, s.wr)
  /\ diff' = DiffAfter(RunOneErr(s.status),
                       diffLoopBody(diff.serr, RunOneErr(s.status), spike, s.vm))

\* vmerr := vm.Run(1), and the rest of the iteration
DiffVMRun ==
  /\ diff.at = "vm.Run"
  /\ DiffVMRunTo(Step(vm))
  /\ n' = 1
  /\ prev' = vm
  /\ vm0' = vm
  /\ calls' = calls + 1
  /\ UNCHANGED <<tt, got, spike, fds>>

\* the loop ends after MaxSteps iterations
DiffLoopEnd ==
  /\ diff.at = "spike.Run"
  /\ ~(diff.i < MaxSteps)
  /\ diff' = [diff EXCEPT !.at = "Close", !.ret = "nil", !.printed = "EXITTED"]
  /\ UNCHANGED <<vm, status, n, i, size, out, prev, vm0, calls, streams, tt, got,
                 spike, fds>>

\* the deferred spike.Close() runs, and diffWithSpike returns or the panic
\* goes on and ends the process
DiffClose ==
  /\ diff.at = "Close"
  /\ \E fail \in {"none", "Wait", "ptm.Close"} : fds' = Close(spike, fds, fail)
  /\ diff' = [diff EXCEPT !.at = IF diff.ret = "panic" THEN "panic" ELSE "returned"]
  /\ UNCHANGED <<vm, status, n, i, size, out, prev, vm0, calls, streams, tt, got,
                 spike>>

NextDiff ==
  \/ DiffNewSpike
  \/ DiffSetup
  \/ DiffSpikeRun
  \/ DiffVMRun
  \/ DiffLoopEnd
  \/ DiffClose

SpecDiff == InitDiff /\ [][NextDiff]_vars

\* C26: both PTY descriptors are released on every exit path: when newPTY
\* fails after opening the master, when NewSpike fails after acquiring them
\* (the child does not start, the prompt cannot be read, the start address
\* is not reached), and when the wait of Spike.Close fails: no path leaves a
\* descriptor open.
C26_Released == diff.at = "returned" => fds = {}

\* diffWithSpike has returned the error of NewSpike with a descriptor open
C26_Diverges ==
  /\ diff.at = "returned"
  /\ diff.ret = "can't create spike instance"
  /\ fds # {}

\* the loop of diffWithSpike has run an iteration and has been left by a
\* return or a break, no panic unwinding
LoopLeft == diff.at \in {"Close", "returned"} /\ calls > 0 /\ diff.ret # "panic"

\* what holds of the harness in every state: the counts of the calls of
\* spike.Run(1) and vm.Run(1), and the way the loop was left
DiffLoopInv ==
  /\ diff.i <= MaxSteps
  /\ diff.at = "spike.Run" =>
       /\ diff.sruns = diff.i /\ calls = diff.i
       /\ spike.Steps = diff.i /\ vm.Steps = diff.i
       /\ diff.i > 0 =>
            /\ diff.serr = "nil" /\ status = "nil"
            /\ spike.Reg = vm.Reg /\ spike.PC = vm.LastPC
  /\ diff.at = "vm.Run" => diff.sruns = diff.i + 1 /\ calls = diff.i
  /\ LoopLeft =>
       /\ diff.sruns = calls
       /\ calls \in {diff.i, diff.i + 1}
       /\ (diff.serr = "exit") # (status = "exit") =>
            diff.ret = "VM and Spike didn't exit at the same time"
       /\ diff.serr = "exit" /\ status = "exit" =>
            diff.ret = "nil" /\ diff.printed = "EXITTED"
       /\ /\ diff.serr = "nil" /\ status = "nil"
          /\ spike.Reg # vm.Reg \/ spike.PC # vm.LastPC
          => diff.ret = "nil" /\ diff.printed = "FOUND DIFF" /\ calls = diff.i + 1
       /\ diff.printed = "EXITTED" /\ status # "exit" =>
            diff.i = MaxSteps /\ calls = MaxSteps

\* C27: in each iteration of the loop of the diff harness the reference and
\* then the core are stepped exactly one instruction; when exactly one of
\* them reports exit the harness returns a divergence error, when both do
\* the loop ends normally, and in the first iteration in which a register
\* differs or the LastPC of the core differs from the PC of the reference
\* the harness reports the diff and stops without stepping either machine
\* again; the loop runs at most MaxSteps iterations.
C27_DiffLoop ==
  /\ []DiffLoopInv
  /\ [][(diff.at \in {"Close", "returned"}) =>
          (vm' = vm /\ spike' = spike /\ calls' = calls /\ diff'.sruns = diff.sruns)]_vars

\* the second iteration found a register that differs and the harness
\* returned after two steps of each machine
C27_Witness ==
  /\ diff.at = "returned"
  /\ diff.printed = "FOUND DIFF"
  /\ calls = 2
  /\ diff.sruns = 2
  /\ diffRegs(spike.Reg, vm.Reg) = {t0}
  /\ vm.Steps = 2

----------------------------------------------------------------------------
(* Jumps through the register they link, the counters, and C.ANDI *)

\* the last iteration executed a JALR or a C.JALR whose rd is its rs1
LinkedThroughRd ==
  /\ Stepped
  /\ Executed.fn \in {"jalr", "rvcJALR"}
  /\ Executed.rd = Executed.rs1

\* the offset of the jump: sx(imm, 11) for JALR, none for C.JALR
JumpOffset(in) == IF in.fn = "jalr" THEN sx(in.imm, 11) ELSE {}

\* C28: JALR and C.JALR compute the target from the value rs1 held before
\* the instruction: when rd = rs1 the new PC is (old Reg[rs1] + offset) & ~1,
\* not a value derived from the link address the instruction writes to rd.
C28_TargetFromOldRs1 ==
  LinkedThroughRd =>
    vm.PC = AndNot(Add(prev.Reg[Executed.rs1], JumpOffset(Executed)), U(1))

\* c.jalr ra at 2 with ra = 8 has gone to 4, the link address, and not to 8
C28_Diverges ==
  /\ LinkedThroughRd
  /\ Executed.fn = "rvcJALR"
  /\ Executed.rs1 = RA
  /\ prev.PC = U(2)
  /\ prev.Reg[RA] = U(8)
  /\ vm.Reg[RA] = U(4)
  /\ vm.PC = U(4)

\* an iteration of the loop of Run is about to run
InLoop == status = "running" /\ LoopCond(i, n)

\* C29: from a VM built by NewVM, over the calls of Run, CSR[RDINSTRET] and
\* Steps both start at 0 and both count exactly the completed instructions:
\* a completed step adds 1 to Steps and, unless its instruction wrote the
\* RDINSTRET CSR, 1 to CSR[RDINSTRET]; a step that ends in a decode error,
\* a handler error or the exit signal changes neither and leaves PC at the
\* instruction that did not complete; nothing else changes them.  So
\* CSR[RDINSTRET] = Steps as long as no instruction writes the CSR.
C29_Counters ==
  /\ vm.CSR[RDINSTRET] = U(vm.Steps)
  /\ [][(InLoop /\ status' = "running") =>
          (/\ vm'.Steps = vm.Steps + 1
           /\ (~WroteRDINSTRET') =>
                (vm'.CSR[RDINSTRET] = Add(vm.CSR[RDINSTRET], U(1))))]_vars
  /\ [][(InLoop /\ status' \in {"error", "exit"}) =>
          (/\ vm'.Steps = vm.Steps
           /\ vm'.CSR[RDINSTRET] = vm.CSR[RDINSTRET]
           /\ vm'.PC = vm.PC)]_vars
  /\ [][(~InLoop) => (vm' = vm)]_vars

\* the second call of Run has completed steps after those of the first,
\* and the two counters agree
C29_Witness ==
  /\ calls = 2
  /\ Stepped
  /\ vm0.Steps > 0
  /\ vm.Steps > vm0.Steps
  /\ vm.CSR[RDINSTRET] = U(vm.Steps)

\* the last iteration fetched a C.ANDI: quadrant 01, funct3 100, bits 11:10
\* = 10; its register rd' and its 6-bit immediate, bit 12 above bits 6:2
CANDIFetched ==
  /\ RVCFetched
  /\ Field(FetchedHalf, 0, 2) = 1
  /\ Field(FetchedHalf, 13, 3) = 4
  /\ Field(FetchedHalf, 10, 2) = 2
CANDIRd == Field(FetchedHalf, 7, 3) + rvcRegOffset
CANDIImm == U(Field(FetchedHalf, 12, 1) * 32 + Field(FetchedHalf, 2, 5))

\* C30: C.ANDI rd', imm executes as ANDI rd', rd', sx(imm, 5): the 6-bit
\* immediate is sign-extended, so with bit 5 set the result keeps bits
\* 63..5 of rd' and ANDs bits 4..0 with the immediate.
C30_CANDI ==
  CANDIFetched =>
    /\ Stepped
    /\ vm.Reg = RegsWith(CANDIRd, prev.Reg[CANDIRd] & sx(CANDIImm, 5))
    /\ vm.PC = Add(prev.PC, U(2))

\* c.andi s0, -1 on s0 = -1 has left 0x3f in s0
C30_Diverges ==
  /\ CANDIFetched
  /\ Stepped
  /\ CANDIImm = U(\h3f)
  /\ prev.Reg[CANDIRd] = Bits
  /\ vm.Reg[CANDIRd] = U(\h3f)

============================================================================
